---- MODULE Spec2Model ----
(***************************************************************************)
(* Model of the powertrain simulation and engine sound lifecycle of the    *)
(* 8x8 crawler controller firmware (main/tuning.c, main/engine_sound.c,    *)
(* main/perf_metrics.c, main/main.c).                                      *)
(*                                                                         *)
(* Three contexts are modelled: the control loop (process_control_loop),   *)
(* the audio task (engine_sound_task) and API callers on other tasks (the  *)
(* web server, the menu).                                                  *)
(* Time is the millisecond clock esp_timer_get_time() / 1000.              *)
(***************************************************************************)
EXTENDS Integers, Sequences, FiniteSets, TLC

\* ------------------------------------------------------------------------
\* Program constants
\* ------------------------------------------------------------------------
IDLE_RPM == 100
MAX_RPM == 500
CLUTCH_ENGAGING_POINT == 80
GEAR_SHIFT_DURATION_MS == 200
DEFAULT_MAX_RPM_PERCENTAGE == 300
DEFAULT_ACCELERATION == 2
DEFAULT_DECELERATION == 1
DEFAULT_REV_SWITCH_POINT == 120
DEFAULT_MASTER_VOLUME_LEVEL1 == 100
DEFAULT_MASTER_VOLUME_LEVEL2 == 50
DEFAULT_VOLUME_PRESET_LOW == 20
DEFAULT_IDLE_VOLUME == 100
DEFAULT_KNOCK_INTERVAL == 8

\* menu.h, mode_switch.c, config.h, main.c: states and modes
MENU_STATE_INACTIVE == "MENU_STATE_INACTIVE"
MENU_STATE_LEVEL1 == "MENU_STATE_LEVEL1"
MENU_STATE_LEVEL2 == "MENU_STATE_LEVEL2"
BTN_STATE_IDLE == "BTN_STATE_IDLE"
BTN_STATE_PRESSED == "BTN_STATE_PRESSED"
BTN_STATE_WAIT_COMMIT == "BTN_STATE_WAIT_COMMIT"
STEER_MODE_FRONT == "STEER_MODE_FRONT"
STEER_MODE_REAR == "STEER_MODE_REAR"
STEER_MODE_ALL_AXLE == "STEER_MODE_ALL_AXLE"
STEER_MODE_CRAB == "STEER_MODE_CRAB"
APP_STATE_RUNNING == "APP_STATE_RUNNING"
APP_STATE_FAILSAFE == "APP_STATE_FAILSAFE"
DEFAULT_KNOCK_START_POINT == 150
\* The layout version of the sound config (v3 added the volume presets) and
\* its magic constant.
SOUND_CONFIG_VERSION == 3
SOUND_CONFIG_MAGIC == "SOUND_CONFIG_MAGIC"
DEFAULT_IDLE_END_POINT == 450
IDLE_PROPORTION_MAX == 90
TUNING_DEFAULT_ESC_DEADZONE == 30
MAX_ACCELERATION == 9
MAX_DECELERATION == 5
TUNING_DEFAULT_COAST_RATE == 50
TUNING_DEFAULT_BRAKE_FORCE == 50
NVS_DEBOUNCE_MS == 500

\* ------------------------------------------------------------------------
\* Bounds of the model
\* ------------------------------------------------------------------------
\* Last clock value (ms) the model explores.
MaxNow == 3000
\* Motor cutoff (ESC deadband) the tuning config holds.
MotorCutoff == 40
\* Clock advance between two observations of the clock.
TimeStepLong == 900
\* Buffers play_start_sound writes for one start sample.
StartBuffers == 1
\* Buffers the mixer needs to play the gear clunk sample.
ClunkBuffers == 1
\* Samples kept of the idle recordings of the URAL 4320 and the CAT 3408, and
\* of the jake-brake recording of the URAL 4320.
IdleSamplesUral == 3
IdleSamplesCat == 2
JakeSamplesUral == 2
\* Calls of schedule_nvs_save() without a write in between are counted up to
\* this number; the clock step of the deferred-save specification (ms).
MaxCalls == 3
NvsStep == 250
\* The master volume a web request sets.
WebVolume == 60
\* Samples kept of the rev and knock recordings of every profile and of the
\* mode-switch effect.
RevSamples == 2
KnockSamples == 2
ModeSwitchSamples == 2
\* Samples kept of the idle recordings of the Tatra 813 (12 cylinders) and the
\* Detroit 8V92 (8 cylinders): a multiple of the cylinder count, and not.
IdleSamplesTatra == 36
IdleSamplesDetroit == 33

\* ------------------------------------------------------------------------
\* C arithmetic
\* ------------------------------------------------------------------------
\* C integer division truncates toward zero (b > 0).
CDiv(a, b) == IF a >= 0 THEN a \div b ELSE -((-a) \div b)

Abs(x) == IF x < 0 THEN -x ELSE x

\* The first value whatever the second.
MinNoBound(a, b) == a

Min(a, b) == IF a < b THEN a ELSE b

Max(a, b) == IF a > b THEN a ELSE b

Sign(x) == IF x > 0 THEN 1 ELSE IF x < 0 THEN -1 ELSE 0

VARIABLES
    \* tuning.c: realistic throttle state and the ESC tuning it reads
    simulated_velocity, last_direction, throttle_released, currently_braking,
    coast_rate, brake_force,
    \* history of the simulator's ticks: sign of the last nonzero velocity a
    \* tick produced, whether a neutral-throttle tick has run since then, and
    \* whether the velocity has changed sign
    hist_direction, hist_neutral, hist_reversed,
    \* engine_sound.c: lifecycle
    engine_state, engine_enabled, engine_task_running,
    \* position of the caller of engine_sound_start, and the number of
    \* start-sound buffers play_start_sound has written
    start_pc, start_bufs,
    \* engine_sound.c: RPM tracking and config fields that bound it
    current_rpm, target_rpm, rpm_update_counter,
    max_rpm_percentage, acceleration, deceleration,
    \* engine_sound.c: shutdown fade
    shutdown_attenuation, shutdown_speed_pct, last_shutdown_update,
    \* engine_sound.c: horn request; perf_metrics.c: s_metrics
    horn_active, audio_underruns, metrics_initialized,
    \* engine_sound.c: transmission
    current_gear, last_upshift_time, last_downshift_time,
    rpm_settled_after_upshift,
    \* engine_sound.c: shift event, its attenuation and the gear clunk
    gear_shift_trigger, gear_shift_start_time, gear_shift_attenuation,
    gear_shift_sound_trigger, gear_shift_sound_pos,
    \* position of the control loop inside engine_sound_update; what the call
    \* has computed so far (is_braking, effective_throttle, max_rpm,
    \* engine_load, vehicle_speed); whether the call changed the gear; whether
    \* a cycle of the audio task has run since the call began
    update_pc, upd_braking, upd_throttle, upd_max_rpm, upd_load, upd_speed,
    upd_gear_changed, upd_overlap,
    \* rc_input: throttle mode (AUX3) and throttle the receiver delivers
    rc_mode, rc_throttle,
    \* engine_sound.c: the active sound profile and the cursors of the idle
    \* and jake-brake layers (whole samples)
    current_profile, idle_sample_pos, jake_sample_pos,
    \* position of the audio task inside mix_engine_samples; the index and
    \* the profile of the bound check it made last; the profile whose buffer
    \* it read last
    mix_pc, mix_idx, mix_profile, mix_buf,
    \* deferred save of the sound config: the esp_timer handle is non-NULL,
    \* the one-shot timer is armed, the milliseconds until it expires, the
    \* dirty flag
    nvs_save_timer, nvs_timer_armed, nvs_timer_remaining, nvs_config_dirty,
    \* the volume fields of the in-memory sound config
    active_volume_level, master_volume_level1, master_volume_level2,
    \* the confirmation beep of the volume toggle
    mode_switch_trigger,
    \* the volume fields of the config in persistent storage; the number of
    \* schedule_nvs_save() calls since the last write of the config (capped)
    \* and the number of writes of the config since the last such call
    nvs_saved, nvs_calls, nvs_writes,
    \* tuning: current_config.esc.motor_cutoff
    motor_cutoff,
    \* engine_sound_update: the statics of the air-brake detector
    peak_vehicle_speed, was_motor_stopped,
    \* engine_sound.c: the one-shot effects the mixer plays and the throttle
    \* tracking and the cooldown stamp of the wastegate
    air_brake_trigger, wastegate_trigger, wastegate_lockout_time,
    prev_throttle_for_wastegate,
    \* observers: the vehicle speed was above the air-brake threshold with
    \* the motor running since the air brake was last armed; the
    \* milliseconds since the wastegate was last armed (capped at MaxNow);
    \* the last pass was in direct or neutral mode and handed
    \* engine_sound_update a speed above the air-brake threshold
    hist_speed_exceeded, hist_wastegate_age, hist_direct_fast,
    \* engine_sound.c: config.rev_switch_point and config.idle_end_point; the
    \* crossfade proportions mix_engine_samples computed last
    rev_switch_point, idle_end_point, idle_prop, rev_prop,
    \* engine_sound.c: the cursors of the rev layer, the knock overlay and the
    \* mode-switch effect (whole samples)
    rev_sample_pos, knock_sample_pos, mode_switch_sample_pos,
    \* config.profile and config.knock_interval; the value the last call of
    \* engine_sound_set_profile returned
    config_profile, knock_interval, set_profile_ret,
    \* config.magic, config.version, config.volume_preset_low and
    \* config.idle_volume; the value the last call of engine_sound_init
    \* returned
    config_magic, config_version, volume_preset_low, idle_volume, init_ret,
    \* which branch of the load in engine_sound_init filled the config
    config_source,
    \* the value the last call of engine_sound_start returned and the value
    \* play_start_sound returned to it
    start_ret, play_ret,
    \* the low 16 bits of idle_sample_pos (idle_sample_pos holds the sample
    \* index, idle_sample_pos >> 16), last_knock_pos, knock_counter,
    \* config.knock_start_point; the knock one-shots started during the
    \* current pass of the idle cursor and during the last complete pass
    \* (-1: no pass completed yet)
    idle_sample_frac, last_knock_pos, knock_counter, knock_start_point,
    hist_pass_knocks, hist_last_pass,
    \* web_server.c, sound_post_handler: its position and its local copy cfg
    \* of the sound config
    web_pc, web_cfg,
    \* menu.c
    menu_state, category_index, option_index, last_activity_time,
    aux2_was_pressed, aux2_press_start, aux2_longpress_handled, aux1_was_pressed,
    \* mode_switch.c, and app_state of main.c
    btn_state, last_press_time, last_release_time, press_count, current_mode,
    last_normal_mode, longpress_handled, steering_enabled, app_state,
    \* history of the menu: the AUX2 press that left Level 1 by a long press
    \* is still the current press or the last one; the press sequence
    \* pending in mode_switch holds a press begun while the menu was active
    \* (dropped by a forced exit); the engine was Running when the menu was
    \* entered; the menu has been active
    hist_exit_press, hist_menu_press, hist_running_at_entry,
    hist_menu_was_active,
    \* esp_timer_get_time() / 1000
    now

dynVars == <<simulated_velocity, last_direction, throttle_released,
             currently_braking, coast_rate, brake_force>>
histVars == <<hist_direction, hist_neutral, hist_reversed>>
lifeVars == <<engine_state, engine_enabled, engine_task_running,
              start_pc, start_bufs>>
rpmVars == <<current_rpm, target_rpm, rpm_update_counter>>
cfgVars == <<max_rpm_percentage, acceleration, deceleration>>
fadeVars == <<shutdown_attenuation, shutdown_speed_pct, last_shutdown_update>>
perfVars == <<audio_underruns, metrics_initialized>>

gearVars == <<current_gear, last_upshift_time, last_downshift_time,
              rpm_settled_after_upshift>>
shiftVars == <<gear_shift_trigger, gear_shift_start_time, gear_shift_attenuation,
               gear_shift_sound_trigger, gear_shift_sound_pos>>
updVars == <<update_pc, upd_braking, upd_throttle, upd_max_rpm, upd_load,
             upd_speed, upd_gear_changed>>
rcVars == <<rc_mode, rc_throttle>>
mixVars == <<current_profile, idle_sample_pos, jake_sample_pos,
             mix_pc, mix_idx, mix_profile, mix_buf>>

nvsVars == <<nvs_save_timer, nvs_timer_armed, nvs_timer_remaining,
             nvs_config_dirty, active_volume_level, master_volume_level1,
             master_volume_level2, mode_switch_trigger, nvs_saved, nvs_calls, nvs_writes>>
\* State that the control loop, the lifecycle and the mixer do not read.
sfxVars == <<motor_cutoff, peak_vehicle_speed, was_motor_stopped,
             air_brake_trigger, wastegate_trigger, wastegate_lockout_time,
             prev_throttle_for_wastegate, hist_speed_exceeded, hist_wastegate_age,
             hist_direct_fast>>
xfVars == <<rev_switch_point, idle_end_point, idle_prop, rev_prop>>
\* State of the sound config, its storage and the mixer's layers.
curVars == <<rev_sample_pos, knock_sample_pos, mode_switch_sample_pos>>
profVars == <<config_profile, knock_interval, set_profile_ret>>
blobVars == <<config_magic, config_version, volume_preset_low, idle_volume,
              init_ret, config_source>>
retVars == <<start_ret, play_ret>>
knockVars == <<idle_sample_frac, last_knock_pos, knock_counter, knock_start_point,
               hist_pass_knocks, hist_last_pass>>
webVars == <<web_pc, web_cfg>>
menuVars == <<menu_state, category_index, option_index, last_activity_time,
              aux2_was_pressed, aux2_press_start, aux2_longpress_handled,
              aux1_was_pressed>>
switchVars == <<btn_state, last_press_time, last_release_time, press_count,
                current_mode, last_normal_mode, longpress_handled,
                steering_enabled, app_state>>
menuHistVars == <<hist_exit_press, hist_menu_press,
                  hist_running_at_entry, hist_menu_was_active>>
extVars == <<webVars, menuVars, switchVars, menuHistVars>>
sndVars == <<xfVars, curVars, profVars, blobVars, retVars, knockVars, extVars>>
fxVars == <<nvsVars, sfxVars, sndVars>>

engineVars == <<lifeVars, rpmVars, cfgVars, fadeVars, perfVars, gearVars,
                shiftVars, updVars, upd_overlap, rcVars, mixVars, horn_active,
                fxVars, now>>

vars == <<dynVars, histVars, engineVars>>

\* ------------------------------------------------------------------------
\* tuning.c: vehicle dynamics simulator
\* ------------------------------------------------------------------------
\* Throttle values fed to the simulator.
Throttles == {-1000, -600, -40, 0, 40, 600, 1000}

\* ESC tuning values (0..100) the simulator is run with.
CoastRates == {0, 50, 100}
BrakeForces == {0, 50, 100}

CoastDecel(cr) == Max(5, 50 - CDiv(cr * 45, 100))

BrakeStrength(bf) == 5 + CDiv(bf * 195, 100)

\* No acceleration at all.
AccelRateNone(cr) == 0

AccelRate(cr) == 20 + CDiv(100 - cr, 5)

\* Velocity moved toward zero by step, never past it.
DecayToZeroNoClamp(v, step) ==
    IF v > 0 THEN v - step ELSE IF v < 0 THEN v + step ELSE v

\* Velocity moved toward zero by twice the step, never past zero.
DecayToZeroTwice(v, step) ==
    IF v > 0 THEN Max(0, v - 2 * step)
    ELSE IF v < 0 THEN Min(0, v + 2 * step)
    ELSE v

DecayToZero(v, step) ==
    IF v > 0 THEN Max(0, v - step)
    ELSE IF v < 0 THEN Min(0, v + step)
    ELSE v

\* Case 2 of the simulator: the throttle opposes the motion, or opposes the
\* last direction while stopped.
OpposesMotion(t, v, ld) ==
    \/ (t > 0 /\ v < 0)
    \/ (t < 0 /\ v > 0)
    \/ (v = 0 /\ t < 0 /\ ld = 1)
    \/ (v = 0 /\ t > 0 /\ ld = -1)

\* One call of tuning_apply_realistic_throttle: the new
\* [v, ld, tr, br] from throttle input t and the state before the call.
RealisticThrottle(t, v, ld, tr, cr, bf) ==
    LET coast_decel == CoastDecel(cr)
        brake_strength == BrakeStrength(bf)
        accel_rate == AccelRate(cr)
        stopped == (v = 0)
        tr1 == IF t = 0 THEN TRUE ELSE tr
        r == IF t = 0 THEN
                 [v |-> DecayToZero(v, coast_decel), ld |-> ld, tr |-> tr1, br |-> FALSE]
             ELSE IF OpposesMotion(t, v, ld) THEN
                 [v |-> DecayToZero(v, brake_strength), ld |-> ld, tr |-> FALSE, br |-> TRUE]
             ELSE IF t > 0 THEN
                 IF v > 0 \/ (stopped /\ (tr1 \/ ld # -1)) THEN
                     IF v < t THEN
                         [v |-> Min(v + accel_rate, t), ld |-> 1, tr |-> FALSE, br |-> FALSE]
                     ELSE IF v > t THEN
                         [v |-> Max(v - coast_decel, t), ld |-> ld, tr |-> tr1, br |-> FALSE]
                     ELSE [v |-> v, ld |-> ld, tr |-> tr1, br |-> FALSE]
                 ELSE [v |-> v, ld |-> ld, tr |-> tr1, br |-> FALSE]
             ELSE
                 IF v < 0 \/ (stopped /\ (tr1 \/ ld # 1)) THEN
                     IF v > t THEN
                         [v |-> Max(v - accel_rate, t), ld |-> -1, tr |-> FALSE, br |-> FALSE]
                     ELSE IF v < t THEN
                         [v |-> Min(v + coast_decel, t), ld |-> ld, tr |-> tr1, br |-> FALSE]
                     ELSE [v |-> v, ld |-> ld, tr |-> tr1, br |-> FALSE]
                 ELSE [v |-> v, ld |-> ld, tr |-> tr1, br |-> FALSE]
    IN  IF stopped /\ r.tr THEN [r EXCEPT !.ld = 0] ELSE r

\* The history the simulator's caller can observe over a sequence of ticks.
HistAfterTick(t, v2) ==
    /\ hist_direction' = IF v2 # 0 THEN Sign(v2) ELSE hist_direction
    /\ hist_neutral' = IF v2 # 0 THEN FALSE ELSE (hist_neutral \/ t = 0)
    /\ hist_reversed' = (hist_reversed \/ (v2 # 0 /\ hist_direction # 0
                                              /\ Sign(v2) # hist_direction))

\* tuning_apply_realistic_throttle(throttle_input)
ApplyRealisticThrottle(t) ==
    LET r == RealisticThrottle(t, simulated_velocity, last_direction,
                               throttle_released, coast_rate, brake_force)
    IN  /\ simulated_velocity' = r.v
        /\ last_direction' = r.ld
        /\ throttle_released' = r.tr
        /\ currently_braking' = r.br
        /\ HistAfterTick(t, r.v)
        /\ UNCHANGED <<coast_rate, brake_force>>

\* tuning_reset_realistic_throttle(): the signal-loss reset.  A new sequence
\* of ticks starts, so the history starts over.
ResetRealisticThrottle ==
    /\ simulated_velocity' = 0
    /\ last_direction' = 0
    /\ throttle_released' = TRUE
    /\ hist_direction' = 0
    /\ hist_neutral' = FALSE
    /\ hist_reversed' = FALSE
    /\ UNCHANGED <<currently_braking, coast_rate, brake_force>>

\* ------------------------------------------------------------------------
\* engine_sound.c: lifecycle, RPM controller, audio task
\* ------------------------------------------------------------------------
OFF == "OFF"
STARTING == "STARTING"
RUNNING == "RUNNING"
STOPPING == "STOPPING"

\* Highest RPM the config allows: (IDLE_RPM * config.max_rpm_percentage) / 100
MaxRpm(pct) == CDiv(IDLE_RPM * pct, 100)

\* Conversions to uint8_t and uint16_t.
U8(x) == x % 256
U16(x) == x % 65536

\* calc_idle_proportion with the interpolation turned round: the idle share
\* grows with the RPM.
CalcIdleProportionRising(rpm) ==
    IF rpm <= rev_switch_point THEN IDLE_PROPORTION_MAX
    ELSE IF rpm >= idle_end_point THEN 0
    ELSE U8(CDiv((rpm - rev_switch_point) * IDLE_PROPORTION_MAX,
                 idle_end_point - rev_switch_point))

\* calc_idle_proportion(rpm)
CalcIdleProportion(rpm) ==
    IF rpm <= rev_switch_point THEN IDLE_PROPORTION_MAX
    ELSE IF rpm >= idle_end_point THEN 0
    ELSE U8(IDLE_PROPORTION_MAX
            - U8(CDiv((rpm - rev_switch_point) * IDLE_PROPORTION_MAX,
                      idle_end_point - rev_switch_point)))

\* mix_engine_samples with the rev share taken from calc_rev_proportion
\* (engine_sound.c:348-359) in place of 100 - idle_prop.
MixRevProportionOwn(rpm) ==
    IF rpm <= rev_switch_point THEN 0
    ELSE IF rpm >= idle_end_point THEN 100
    ELSE U8(CDiv((rpm - rev_switch_point) * 100,
                 idle_end_point - rev_switch_point))

\* mix_engine_samples: rev_prop = 100 - idle_prop
MixRevProportion(rpm) == U8(100 - CalcIdleProportion(rpm))

\* RPM values passed to engine_sound_set_rpm.
RpmInputs == {0, 1000}

\* update_rpm() that steps by the configured rate alone.
UpdateRpmFixedStep(cur, tgt, acc, dec, pct) ==
    LET diff == tgt - cur
        moved == IF diff > 0 THEN Min(cur + acc, tgt)
                 ELSE IF diff < 0 THEN Max(cur - dec, tgt)
                 ELSE cur
        low == IF moved < IDLE_RPM THEN IDLE_RPM ELSE moved
    IN  IF low > MaxRpm(pct) THEN MaxRpm(pct) ELSE low

\* update_rpm(): current_rpm one step toward target_rpm, then clamped.
UpdateRpm(cur, tgt, acc, dec, pct) ==
    LET diff == tgt - cur
        up == Max(acc, CDiv(diff, 10))
        down == Max(dec, CDiv(-diff, 10))
        moved == IF diff > 0 THEN Min(cur + up, tgt)
                 ELSE IF diff < 0 THEN Max(cur - down, tgt)
                 ELSE cur
        low == IF moved < IDLE_RPM THEN IDLE_RPM ELSE moved
    IN  IF low > MaxRpm(pct) THEN MaxRpm(pct) ELSE low

\* perf_metrics_record_underrun(): the counter after the call.
RecordUnderrun(n) == IF metrics_initialized THEN n + 1 ELSE n

\* The effect of engine_sound_stop() on the variables it writes.
StopEffect ==
    /\ shutdown_attenuation' = 1
    /\ shutdown_speed_pct' = 100
    /\ engine_state' = STOPPING

\* The clock advances by step.  The code compares the clock only with stored
\* timestamps, and only against intervals of at most 2000 ms, so once the
\* clock has reached MaxNow the model moves the origin forward instead: the
\* clock stays and every timestamp ages by step, down to 0.  The esp_timer
\* task dispatches an expired timer before anything else sees the later
\* time, so the clock does not pass the expiry of the armed save timer.
Tick(step) ==
    /\ update_pc = "idle"
    /\ nvs_timer_armed => step <= nvs_timer_remaining
    /\ nvs_timer_remaining' = IF nvs_timer_armed THEN nvs_timer_remaining - step
                                                 ELSE nvs_timer_remaining
    /\ UNCHANGED <<nvs_save_timer, nvs_timer_armed, nvs_config_dirty,
                   active_volume_level, master_volume_level1,
                   master_volume_level2, mode_switch_trigger, nvs_saved,
                   nvs_calls, nvs_writes>>
    /\ IF now + step <= MaxNow
       THEN /\ now' = now + step
            /\ UNCHANGED <<last_shutdown_update, last_upshift_time,
                           last_downshift_time, gear_shift_start_time>>
       ELSE /\ now' = now
            /\ last_shutdown_update' = Max(last_shutdown_update - step, 0)
            /\ last_upshift_time' = Max(last_upshift_time - step, 0)
            /\ last_downshift_time' = Max(last_downshift_time - step, 0)
            /\ gear_shift_start_time' = Max(gear_shift_start_time - step, 0)
    /\ wastegate_lockout_time' = IF now + step <= MaxNow
                                 THEN wastegate_lockout_time
                                 ELSE Max(wastegate_lockout_time - step, 0)
    /\ hist_wastegate_age' = Min(hist_wastegate_age + step, MaxNow)
    /\ UNCHANGED <<motor_cutoff, peak_vehicle_speed, was_motor_stopped,
                   air_brake_trigger, wastegate_trigger,
                   prev_throttle_for_wastegate, hist_speed_exceeded,
                   hist_direct_fast>>
    /\ UNCHANGED <<dynVars, histVars, mixVars, lifeVars, rpmVars, cfgVars, perfVars,
                   updVars, upd_overlap, rcVars, horn_active, sndVars>>
    /\ UNCHANGED <<shutdown_attenuation, shutdown_speed_pct>>
    /\ UNCHANGED <<current_gear, rpm_settled_after_upshift>>
    /\ UNCHANGED <<gear_shift_trigger, gear_shift_attenuation,
                   gear_shift_sound_trigger, gear_shift_sound_pos>>

\* engine_sound_get_volume_preset(index) under the default presets.
VolumePreset(index) ==
    CASE index = 0 -> 20
      [] index = 1 -> 100
      [] index = 2 -> 170
      [] OTHER -> 100

\* A save that writes the default idle volume in place of the config's.
SoundConfigStale ==
    [magic |-> config_magic,
     version |-> config_version,
     profile |-> config_profile,
     master_volume_level1 |-> master_volume_level1,
     master_volume_level2 |-> master_volume_level2,
     active_volume_level |-> active_volume_level,
     volume_preset_low |-> volume_preset_low,
     idle_volume |-> 100,
     max_rpm_percentage |-> max_rpm_percentage,
     acceleration |-> acceleration,
     deceleration |-> deceleration,
     rev_switch_point |-> rev_switch_point,
     idle_end_point |-> idle_end_point,
     knock_start_point |-> knock_start_point,
     knock_interval |-> knock_interval]

\* The in-memory sound config as the blob nvs_save_sound_config is handed:
\* the magic, the version, and of each run of fields that the layout
\* versions treat alike the fields the model reads and one more.
SoundConfig ==
    [magic |-> config_magic,
     version |-> config_version,
     profile |-> config_profile,
     master_volume_level1 |-> master_volume_level1,
     master_volume_level2 |-> master_volume_level2,
     active_volume_level |-> active_volume_level,
     volume_preset_low |-> volume_preset_low,
     idle_volume |-> idle_volume,
     max_rpm_percentage |-> max_rpm_percentage,
     acceleration |-> acceleration,
     deceleration |-> deceleration,
     rev_switch_point |-> rev_switch_point,
     idle_end_point |-> idle_end_point,
     knock_start_point |-> knock_start_point,
     knock_interval |-> knock_interval]

\* nvs_save_sound_config(&config, ...): the config in persistent storage
\* becomes the in-memory config, and the calls of schedule_nvs_save() so far
\* are served.
NvsSaveSoundConfig ==
    /\ nvs_saved' = SoundConfig
    /\ nvs_calls' = 0
    /\ nvs_writes' = nvs_writes + 1

\* The variables outside the deferred save and the volume config.
coreVars == <<dynVars, histVars, lifeVars, rpmVars, cfgVars, fadeVars, perfVars,
              gearVars, shiftVars, updVars, upd_overlap, rcVars, mixVars,
              horn_active, sfxVars, now>>

\* schedule_nvs_save() without the dirty mark: the timer alone is restarted.
ScheduleNvsSaveNoDirty ==
    /\ nvs_calls' = Min(nvs_calls + 1, MaxCalls)
    /\ nvs_writes' = 0
    /\ IF nvs_save_timer
       THEN /\ nvs_timer_armed' = TRUE
            /\ nvs_timer_remaining' = NVS_DEBOUNCE_MS
       ELSE UNCHANGED <<nvs_timer_armed, nvs_timer_remaining>>
    /\ UNCHANGED <<nvs_config_dirty, nvs_save_timer, nvs_saved>>

\* schedule_nvs_save(): the config is marked dirty and the one-shot timer,
\* if it exists, is stopped and started again with the full period.
ScheduleNvsSave ==
    /\ nvs_config_dirty' = TRUE
    /\ nvs_calls' = Min(nvs_calls + 1, MaxCalls)
    /\ nvs_writes' = 0
    /\ IF nvs_save_timer
       THEN /\ nvs_timer_armed' = TRUE
            /\ nvs_timer_remaining' = NVS_DEBOUNCE_MS
       ELSE UNCHANGED <<nvs_timer_armed, nvs_timer_remaining>>
    /\ UNCHANGED <<nvs_save_timer, nvs_saved>>

\* engine_sound_toggle_volume_level()
ToggleVolumeLevel ==
    /\ active_volume_level' = IF active_volume_level = 0 THEN 1 ELSE 0
    /\ mode_switch_trigger' = (engine_state = RUNNING \/ mode_switch_trigger)
    /\ mode_switch_sample_pos' = IF engine_state = RUNNING THEN 0
                                 ELSE mode_switch_sample_pos
    /\ ScheduleNvsSave
    /\ UNCHANGED <<master_volume_level1, master_volume_level2>>
    /\ UNCHANGED <<xfVars, profVars, blobVars, retVars, knockVars, extVars, rev_sample_pos, knock_sample_pos>>
    /\ UNCHANGED coreVars

\* engine_sound_set_volume_preset(index)
SetVolumePreset(index) ==
    /\ master_volume_level1' = VolumePreset(index)
    /\ master_volume_level2' = VolumePreset(index)
    /\ ScheduleNvsSave
    /\ UNCHANGED <<active_volume_level, mode_switch_trigger>>
    /\ UNCHANGED <<coreVars, sndVars>>

\* nvs_save_timer_callback(), dispatched when the one-shot timer expires.
NvsTimerCallback ==
    /\ nvs_timer_armed
    /\ nvs_timer_remaining = 0
    /\ nvs_timer_armed' = FALSE
    /\ IF nvs_config_dirty
       THEN /\ nvs_config_dirty' = FALSE
            /\ NvsSaveSoundConfig
       ELSE UNCHANGED <<nvs_config_dirty, nvs_saved, nvs_calls, nvs_writes>>
    /\ UNCHANGED <<nvs_save_timer, nvs_timer_remaining, active_volume_level,
                   master_volume_level1, master_volume_level2,
                   mode_switch_trigger>>
    /\ UNCHANGED <<coreVars, sndVars>>

\* sound_profile_t
URAL_4320 == 0
TATRA_813 == 1
DETROIT_8V92 == 2
CAT_3408 == 3
SOUND_PROFILE_COUNT == 4
\* esp_err_t values.
ESP_OK == "ESP_OK"
ESP_ERR_INVALID_ARG == "ESP_ERR_INVALID_ARG"
ESP_FAIL == "ESP_FAIL"
ESP_ERR_NO_MEM == "ESP_ERR_NO_MEM"
ESP_ERR_INVALID_STATE == "ESP_ERR_INVALID_STATE"

\* profiles[].cylinder_count
CylinderCount(profile) == IF profile = TATRA_813 THEN 12 ELSE 8

\* sound_profiles_get(profile): an index out of range yields the URAL 4320.
SoundProfilesGet(profile) ==
    IF profile >= SOUND_PROFILE_COUNT THEN URAL_4320 ELSE profile

\* sound_config_get_defaults(cfg)
SoundConfigDefaults ==
    [magic |-> SOUND_CONFIG_MAGIC,
     version |-> SOUND_CONFIG_VERSION,
     profile |-> CAT_3408,
     master_volume_level1 |-> DEFAULT_MASTER_VOLUME_LEVEL1,
     master_volume_level2 |-> DEFAULT_MASTER_VOLUME_LEVEL2,
     active_volume_level |-> 0,
     volume_preset_low |-> DEFAULT_VOLUME_PRESET_LOW,
     idle_volume |-> DEFAULT_IDLE_VOLUME,
     max_rpm_percentage |-> DEFAULT_MAX_RPM_PERCENTAGE,
     acceleration |-> DEFAULT_ACCELERATION,
     deceleration |-> DEFAULT_DECELERATION,
     rev_switch_point |-> DEFAULT_REV_SWITCH_POINT,
     idle_end_point |-> DEFAULT_IDLE_END_POINT,
     knock_start_point |-> DEFAULT_KNOCK_START_POINT,
     knock_interval |-> DEFAULT_KNOCK_INTERVAL]

\* sound_config_migrate that copies the blob as it is and only stamps the
\* magic and the version.
SoundConfigMigrateRaw(old_config, old_version) ==
    [old_config EXCEPT !.magic = SOUND_CONFIG_MAGIC,
                       !.version = SOUND_CONFIG_VERSION]

\* sound_config_migrate(old_config, old_version): the fields of old_config
\* are the bytes of the stored blob at the offsets of the current layout.
SoundConfigMigrate(old_config, old_version) ==
    LET with_profile == [SoundConfigDefaults EXCEPT !.profile = old_config.profile]
        from_v1 ==
            IF old_version = 1
            THEN [with_profile EXCEPT
                    !.master_volume_level1 = old_config.master_volume_level1,
                    !.master_volume_level2 = CDiv(old_config.master_volume_level1, 2),
                    !.active_volume_level = 0]
            ELSE with_profile
    IN  IF old_version >= 2
        THEN [from_v1 EXCEPT
                !.master_volume_level1 = old_config.master_volume_level1,
                !.master_volume_level2 = old_config.master_volume_level2,
                !.active_volume_level = old_config.active_volume_level]
        ELSE from_v1

\* nvs_load_sound_config(&saved_config, &config_len): the blob that storage
\* holds, when the read succeeds.
NvsLoadSoundConfig(load_ok) ==
    [ret |-> IF load_ok THEN ESP_OK ELSE ESP_FAIL, cfg |-> nvs_saved]

\* engine_sound_init that falls back to the defaults without writing them.
InitConfigNoWriteBack(load_ok) ==
    LET loaded == NvsLoadSoundConfig(load_ok)
    IN  IF loaded.ret # ESP_OK \/ loaded.cfg.magic # SOUND_CONFIG_MAGIC
        THEN [cfg |-> SoundConfigDefaults, save |-> FALSE, source |-> "defaults"]
        ELSE IF loaded.cfg.version # SOUND_CONFIG_VERSION
        THEN [cfg |-> SoundConfigMigrate(loaded.cfg, loaded.cfg.version),
              save |-> TRUE, source |-> "migrated"]
        ELSE [cfg |-> loaded.cfg, save |-> FALSE, source |-> "loaded"]

\* engine_sound_init: the config the load yields, whether it is written
\* back, and the branch taken.
InitConfig(load_ok) ==
    LET loaded == NvsLoadSoundConfig(load_ok)
    IN  IF loaded.ret # ESP_OK \/ loaded.cfg.magic # SOUND_CONFIG_MAGIC
        THEN [cfg |-> SoundConfigDefaults, save |-> TRUE, source |-> "defaults"]
        ELSE IF loaded.cfg.version # SOUND_CONFIG_VERSION
        THEN [cfg |-> SoundConfigMigrate(loaded.cfg, loaded.cfg.version),
              save |-> TRUE, source |-> "migrated"]
        ELSE [cfg |-> loaded.cfg, save |-> FALSE, source |-> "loaded"]

\* engine_sound_init(), called when the sound system is not running.  It
\* creates the save timer and loads the config that storage holds; load_ok
\* tells whether the read of the blob succeeds.
EngineSoundInit(load_ok) ==
    LET c == InitConfig(load_ok)
    IN  /\ ~engine_task_running
        /\ engine_state' = OFF
        /\ current_rpm' = IDLE_RPM
        /\ target_rpm' = IDLE_RPM
        /\ engine_enabled' = TRUE
        /\ gear_shift_sound_trigger' = FALSE
        /\ gear_shift_sound_pos' = 0
        /\ engine_task_running' = TRUE
        /\ rpm_update_counter' = 0
        /\ nvs_save_timer' = TRUE
        /\ nvs_saved' = IF c.save THEN c.cfg ELSE nvs_saved
        /\ config_magic' = c.cfg.magic
        /\ config_version' = c.cfg.version
        /\ config_profile' = c.cfg.profile
        /\ master_volume_level1' = c.cfg.master_volume_level1
        /\ master_volume_level2' = c.cfg.master_volume_level2
        /\ active_volume_level' = c.cfg.active_volume_level
        /\ volume_preset_low' = c.cfg.volume_preset_low
        /\ idle_volume' = c.cfg.idle_volume
        /\ max_rpm_percentage' = c.cfg.max_rpm_percentage
        /\ acceleration' = c.cfg.acceleration
        /\ deceleration' = c.cfg.deceleration
        /\ rev_switch_point' = c.cfg.rev_switch_point
        /\ idle_end_point' = c.cfg.idle_end_point
        /\ current_profile' = SoundProfilesGet(c.cfg.profile)
        /\ knock_interval' = CylinderCount(SoundProfilesGet(c.cfg.profile))
        /\ init_ret' = ESP_OK
        /\ config_source' = c.source
        /\ idle_sample_pos' = 0
        /\ rev_sample_pos' = 0
        /\ knock_sample_pos' = 0
        /\ jake_sample_pos' = 0
        /\ UNCHANGED <<nvs_timer_armed, nvs_timer_remaining, nvs_config_dirty,
                       mode_switch_trigger, nvs_calls, nvs_writes>>
        /\ air_brake_trigger' = FALSE
        /\ wastegate_trigger' = FALSE
        /\ wastegate_lockout_time' = 0
        /\ prev_throttle_for_wastegate' = 0
        /\ UNCHANGED <<motor_cutoff, peak_vehicle_speed, was_motor_stopped,
                       hist_speed_exceeded, hist_wastegate_age, hist_direct_fast>>
        /\ UNCHANGED <<idle_prop, rev_prop, mode_switch_sample_pos, set_profile_ret,
                       retVars>>
        /\ idle_sample_frac' = 0
        /\ knock_start_point' = c.cfg.knock_start_point
        /\ hist_pass_knocks' = 0
        /\ UNCHANGED <<last_knock_pos, knock_counter, hist_last_pass>>
        /\ UNCHANGED extVars
        /\ UNCHANGED <<mix_pc, mix_idx, mix_profile, mix_buf>>
        /\ UNCHANGED <<start_pc, start_bufs>>
        /\ UNCHANGED <<gear_shift_trigger, gear_shift_start_time, gear_shift_attenuation>>
        /\ UNCHANGED <<dynVars, histVars, fadeVars, perfVars, gearVars,
                       updVars, upd_overlap, rcVars, horn_active, now>>

EngineInit == \E load_ok \in BOOLEAN : EngineSoundInit(load_ok)

\* engine_sound_deinit()
\* The clean-up without the flush: the timer is stopped and deleted.
EngineDeinitNoFlush ==
    /\ nvs_save_timer' = FALSE
    /\ nvs_timer_armed' = FALSE
    /\ UNCHANGED <<nvs_timer_remaining, nvs_config_dirty, nvs_saved, nvs_calls, nvs_writes>>

\* The timer clean-up of engine_sound_deinit(): the timer is stopped, a
\* dirty config is written, the timer is deleted.
EngineDeinitTimer ==
    IF nvs_save_timer
    THEN /\ nvs_save_timer' = FALSE
         /\ nvs_timer_armed' = FALSE
         /\ UNCHANGED nvs_timer_remaining
         /\ IF nvs_config_dirty
            THEN /\ nvs_config_dirty' = FALSE
                 /\ NvsSaveSoundConfig
            ELSE UNCHANGED <<nvs_config_dirty, nvs_saved, nvs_calls, nvs_writes>>
    ELSE UNCHANGED <<nvs_save_timer, nvs_timer_armed, nvs_timer_remaining,
                     nvs_config_dirty, nvs_saved, nvs_calls, nvs_writes>>

EngineDeinit ==
    /\ engine_task_running
    /\ engine_task_running' = FALSE
    /\ engine_state' = OFF
    /\ EngineDeinitTimer
    /\ UNCHANGED <<active_volume_level, master_volume_level1,
                   master_volume_level2, mode_switch_trigger, sfxVars, sndVars>>
    /\ UNCHANGED <<engine_enabled, start_pc, start_bufs>>
    /\ UNCHANGED <<dynVars, histVars, mixVars, rpmVars, cfgVars, fadeVars, perfVars,
                   gearVars, shiftVars, updVars, upd_overlap, rcVars, horn_active, now>>

\* engine_sound_start() up to the call of play_start_sound().  The caller is
\* the control loop, which is not inside engine_sound_update then.
StartBegin ==
    /\ start_pc = "idle"
    /\ update_pc = "idle"
    /\ engine_task_running
    /\ engine_state # RUNNING
    /\ engine_state' = STARTING
    /\ start_pc' = "playing"
    /\ start_bufs' = 0
    /\ play_ret' = ESP_OK
    /\ UNCHANGED <<engine_enabled, engine_task_running>>
    /\ UNCHANGED <<nvsVars, sfxVars, xfVars, curVars, profVars, blobVars, knockVars, extVars, start_ret>>
    /\ UNCHANGED <<dynVars, histVars, mixVars, rpmVars, cfgVars, fadeVars, perfVars,
                   gearVars, shiftVars, updVars, upd_overlap, rcVars, horn_active, now>>

\* One iteration of the loop of play_start_sound(): a buffer of the start
\* sample is written (a failed write is only followed by a delay), then the
\* loop ends early if the state is no longer Starting.
StartPlay(write_ok) ==
    /\ start_pc = "playing"
    /\ start_bufs < StartBuffers
    /\ start_bufs' = IF engine_state # STARTING THEN StartBuffers
                     ELSE start_bufs + 1
    /\ UNCHANGED <<engine_state, engine_enabled, engine_task_running, start_pc>>
    /\ UNCHANGED <<fxVars, dynVars, histVars, mixVars, rpmVars, cfgVars, fadeVars, perfVars,
                   gearVars, shiftVars, updVars, upd_overlap, rcVars, horn_active, now>>

\* engine_sound_start() after play_start_sound() has returned.
StartEnd ==
    /\ start_pc = "playing"
    /\ start_bufs = StartBuffers
    /\ engine_state' = RUNNING
    /\ current_rpm' = IDLE_RPM
    /\ target_rpm' = IDLE_RPM
    /\ current_gear' = 1
    /\ last_upshift_time' = 0
    /\ last_downshift_time' = 0
    /\ rpm_settled_after_upshift' = TRUE
    /\ start_pc' = "idle"
    /\ start_ret' = ESP_OK
    /\ UNCHANGED <<engine_enabled, engine_task_running, start_bufs,
                   rpm_update_counter>>
    /\ UNCHANGED <<nvsVars, sfxVars, xfVars, curVars, profVars, blobVars, knockVars, extVars, play_ret>>
    /\ UNCHANGED <<dynVars, histVars, mixVars, cfgVars, fadeVars, perfVars, shiftVars,
                   updVars, upd_overlap, rcVars, horn_active, now>>

\* play_start_sound() when the allocation of its buffer fails: it returns
\* ESP_ERR_NO_MEM at once, without playing.
StartPlayNoMem ==
    /\ start_pc = "playing"
    /\ start_bufs = 0
    /\ start_bufs' = StartBuffers
    /\ play_ret' = ESP_ERR_NO_MEM
    /\ UNCHANGED <<engine_state, engine_enabled, engine_task_running, start_pc>>
    /\ UNCHANGED <<nvsVars, sfxVars, xfVars, curVars, profVars, blobVars, knockVars, extVars, start_ret>>
    /\ UNCHANGED <<dynVars, histVars, mixVars, rpmVars, cfgVars, fadeVars, perfVars,
                   gearVars, shiftVars, updVars, upd_overlap, rcVars, horn_active, now>>

\* engine_sound_start() while the sound task is not running.
StartRejected ==
    /\ start_pc = "idle"
    /\ ~engine_task_running
    /\ start_ret' = ESP_ERR_INVALID_STATE
    /\ UNCHANGED <<nvsVars, sfxVars, xfVars, curVars, profVars, blobVars, knockVars, extVars, play_ret>>
    /\ UNCHANGED <<dynVars, histVars, mixVars, lifeVars, rpmVars, cfgVars, fadeVars,
                   perfVars, gearVars, shiftVars, updVars, upd_overlap, rcVars,
                   horn_active, now>>

\* engine_sound_task when the allocation of its mix buffer fails: the task
\* clears engine_task_running and deletes itself.
TaskNoMem ==
    /\ engine_task_running
    /\ engine_task_running' = FALSE
    /\ UNCHANGED <<engine_state, engine_enabled, start_pc, start_bufs>>
    /\ UNCHANGED <<fxVars, dynVars, histVars, mixVars, rpmVars, cfgVars, fadeVars,
                   perfVars, gearVars, shiftVars, updVars, upd_overlap, rcVars,
                   horn_active, now>>

\* engine_sound_stop() with its guard left out.
EngineStopUnguarded ==
    /\ StopEffect
    /\ UNCHANGED <<engine_enabled, engine_task_running, start_pc, start_bufs,
                   last_shutdown_update>>
    /\ UNCHANGED <<fxVars, dynVars, histVars, mixVars, rpmVars, cfgVars, perfVars, gearVars,
                   shiftVars, updVars, upd_overlap, rcVars, horn_active, now>>

\* engine_sound_stop()
EngineStop ==
    IF engine_state = OFF \/ engine_state = STOPPING
    THEN UNCHANGED vars
    ELSE /\ StopEffect
         /\ UNCHANGED <<engine_enabled, engine_task_running, start_pc,
                        start_bufs, last_shutdown_update>>
         /\ UNCHANGED <<fxVars, dynVars, histVars, mixVars, rpmVars, cfgVars, perfVars,
                        gearVars, shiftVars, updVars, upd_overlap, rcVars,
                        horn_active, now>>

\* engine_sound_enable(enable)
EngineEnable(enable) ==
    /\ engine_enabled' = enable
    /\ IF ~enable /\ engine_state = RUNNING
       THEN StopEffect
       ELSE UNCHANGED <<engine_state, shutdown_attenuation, shutdown_speed_pct>>
    /\ UNCHANGED <<engine_task_running, start_pc, start_bufs,
                   last_shutdown_update>>
    /\ UNCHANGED <<fxVars, dynVars, histVars, mixVars, rpmVars, cfgVars, perfVars, gearVars,
                   shiftVars, updVars, upd_overlap, rcVars, horn_active, now>>

\* engine_sound_set_horn(active)
SetHorn(active) ==
    /\ horn_active' = active
    /\ UNCHANGED <<fxVars, dynVars, histVars, mixVars, lifeVars, rpmVars, cfgVars, fadeVars,
                   perfVars, gearVars, shiftVars, updVars, upd_overlap, rcVars,
                   now>>

\* engine_sound_set_rpm(rpm)
SetRpm(rpm) ==
    /\ target_rpm' = Min(Max(rpm, IDLE_RPM), MaxRpm(max_rpm_percentage))
    /\ UNCHANGED <<current_rpm, rpm_update_counter>>
    /\ UNCHANGED <<fxVars, dynVars, histVars, mixVars, lifeVars, cfgVars, fadeVars, perfVars,
                   gearVars, shiftVars, updVars, upd_overlap, rcVars, horn_active, now>>

\* Shift attenuation after the fade step of one audio cycle.
ShiftFade(att, start) ==
    IF att > 0
    THEN IF now - start >= GEAR_SHIFT_DURATION_MS THEN 0
         ELSE 100 - CDiv((now - start) * 100, GEAR_SHIFT_DURATION_MS)
    ELSE att

\* Running branch of engine_sound_task: RPM update every 4th cycle, the
\* shift event consumed, the attenuation faded, the buffer mixed (the gear
\* clunk advances, or ends once its sample is played) and written.
AudioRunning(write_ok) ==
    LET c == rpm_update_counter + 1
        start == IF gear_shift_trigger THEN now ELSE gear_shift_start_time
        att == IF gear_shift_trigger THEN 100 ELSE gear_shift_attenuation
    IN  /\ rpm_update_counter' = IF c >= 4 THEN 0 ELSE c
        /\ current_rpm' = IF c >= 4
                          THEN UpdateRpm(current_rpm, target_rpm, acceleration,
                                         deceleration, max_rpm_percentage)
                          ELSE current_rpm
        /\ gear_shift_trigger' = FALSE
        /\ gear_shift_start_time' = start
        /\ gear_shift_attenuation' = ShiftFade(att, start)
        /\ IF gear_shift_sound_trigger
           THEN IF gear_shift_sound_pos < ClunkBuffers
                THEN /\ gear_shift_sound_pos' = gear_shift_sound_pos + 1
                     /\ UNCHANGED gear_shift_sound_trigger
                ELSE /\ gear_shift_sound_trigger' = FALSE
                     /\ gear_shift_sound_pos' = 0
           ELSE UNCHANGED <<gear_shift_sound_trigger, gear_shift_sound_pos>>
        /\ audio_underruns' = IF write_ok THEN audio_underruns
                              ELSE RecordUnderrun(audio_underruns)
        /\ UNCHANGED <<engine_state, target_rpm, fadeVars>>

\* Stopping branch of engine_sound_task: the fade is stepped when more than
\* 100 ms have passed since the last step; at a threshold the engine is Off
\* and the fade is reset, otherwise a shutdown buffer is mixed and written.
AudioStopping(write_ok) ==
    LET due == now - last_shutdown_update > 100
        att == IF due THEN shutdown_attenuation + 1 ELSE shutdown_attenuation
        pct == IF due THEN shutdown_speed_pct + 15 ELSE shutdown_speed_pct
    IN  /\ last_shutdown_update' = IF due THEN now ELSE last_shutdown_update
        /\ IF att >= 40 \/ pct >= 400
           THEN /\ engine_state' = OFF
                /\ current_rpm' = IDLE_RPM
                /\ shutdown_attenuation' = 1
                /\ shutdown_speed_pct' = 100
                /\ UNCHANGED audio_underruns
           ELSE /\ shutdown_attenuation' = att
                /\ shutdown_speed_pct' = pct
                /\ audio_underruns' = IF write_ok THEN audio_underruns
                                      ELSE RecordUnderrun(audio_underruns)
                /\ UNCHANGED <<engine_state, current_rpm>>
        /\ UNCHANGED <<target_rpm, rpm_update_counter, shiftVars>>

\* Remaining branch of engine_sound_task: a horn-only buffer is written
\* while the horn sounds, otherwise the task only waits.
AudioIdle(write_ok) ==
    /\ audio_underruns' = IF horn_active /\ ~write_ok
                          THEN RecordUnderrun(audio_underruns)
                          ELSE audio_underruns
    /\ UNCHANGED <<engine_state, rpmVars, fadeVars, shiftVars>>

\* True when the cycle of the audio task in the current state writes a
\* buffer to the audio output.
AudioWrites ==
    \/ engine_state = RUNNING /\ engine_enabled
    \/ /\ engine_state = STOPPING
       /\ LET due == now - last_shutdown_update > 100
          IN  ~(shutdown_attenuation + (IF due THEN 1 ELSE 0) >= 40
                \/ shutdown_speed_pct + (IF due THEN 15 ELSE 0) >= 400)
    \/ /\ ~(engine_state = RUNNING /\ engine_enabled)
       /\ engine_state # STOPPING
       /\ horn_active

\* One iteration of the loop of engine_sound_task; write_ok is the result of
\* i2s_channel_write when the iteration writes a buffer.  An iteration lasts
\* about 23 ms and a call of engine_sound_update well under one, so at most
\* one iteration falls into a call.
AudioCycle(write_ok) ==
    /\ engine_task_running
    /\ ~(update_pc = "mid" /\ upd_overlap)
    /\ upd_overlap' = (update_pc = "mid")
    /\ IF engine_state = RUNNING /\ engine_enabled THEN AudioRunning(write_ok)
       ELSE IF engine_state = STOPPING THEN AudioStopping(write_ok)
       ELSE AudioIdle(write_ok)
    /\ UNCHANGED <<engine_enabled, engine_task_running, start_pc, start_bufs,
                   metrics_initialized>>
    /\ UNCHANGED <<fxVars, dynVars, histVars, mixVars, cfgVars, gearVars, updVars, rcVars,
                   horn_active, now>>

\* ------------------------------------------------------------------------
\* engine_sound.c: sound profiles, the sample getters and
\* engine_sound_set_profile
\* ------------------------------------------------------------------------

\* Two of the four profiles: one with a jake-brake recording, one without.
Profiles == {URAL_4320, CAT_3408}

\* idle.sample_count of a profile.  The recordings are arrays of tens of
\* thousands of samples, of a different length each; the model keeps a few.
IdleSampleCount(p) ==
    IF p = URAL_4320 THEN IdleSamplesUral
    ELSE IF p = TATRA_813 THEN IdleSamplesTatra
    ELSE IF p = DETROIT_8V92 THEN IdleSamplesDetroit
    ELSE IdleSamplesCat

\* has_jake_brake and jake_brake.sample_count of a profile: the CAT 3408 has
\* no jake-brake recording (samples NULL, sample_count 0).
HasJakeBrake(p) == p = URAL_4320

JakeSampleCount(p) == IF p = URAL_4320 THEN JakeSamplesUral ELSE 0

\* The audio task is inside mix_engine_samples.
Mixing ==
    /\ engine_task_running
    /\ engine_state = RUNNING
    /\ engine_enabled

\* get_idle_sample up to its bound check: the cursor is checked against the
\* sample count of the profile current_profile points to, and reset when it
\* is past it.
MixIdleCheck ==
    /\ Mixing
    /\ mix_pc = "top"
    /\ mix_profile' = current_profile
    /\ IF idle_sample_pos >= IdleSampleCount(current_profile)
       THEN idle_sample_pos' = 0 /\ mix_idx' = 0
       ELSE mix_idx' = idle_sample_pos /\ UNCHANGED idle_sample_pos
    /\ mix_pc' = "idle_checked"
    /\ UNCHANGED <<current_profile, jake_sample_pos, mix_buf>>
    /\ UNCHANGED <<fxVars, dynVars, histVars, lifeVars, rpmVars, cfgVars, fadeVars,
                   perfVars, gearVars, shiftVars, updVars, upd_overlap,
                   rcVars, horn_active, now>>

\* get_idle_sample's read of samples[idx].  current_profile is a plain
\* pointer that another task writes: the read goes through the value the
\* check loaded or through a value loaded again, as the compiler chose.
MixIdleRead ==
    /\ mix_pc = "idle_checked"
    /\ \E buf \in {mix_profile, current_profile} : mix_buf' = buf
    /\ mix_pc' = "idle_read"
    /\ UNCHANGED <<current_profile, idle_sample_pos, jake_sample_pos, mix_idx,
                   mix_profile>>
    /\ UNCHANGED <<fxVars, dynVars, histVars, lifeVars, rpmVars, cfgVars, fadeVars,
                   perfVars, gearVars, shiftVars, updVars, upd_overlap,
                   rcVars, horn_active, now>>

\* mix_engine_samples after the idle sample: the cursor advances and wraps,
\* and the jake-brake layer is entered when the jake brake is active and the
\* profile has one.
MixIdleAdvance(jake) ==
    /\ mix_pc = "idle_read"
    /\ idle_sample_pos' =
          IF idle_sample_pos + 1 >= IdleSampleCount(current_profile) THEN 0
          ELSE idle_sample_pos + 1
    /\ mix_pc' = IF jake /\ HasJakeBrake(current_profile) THEN "jake" ELSE "top"
    /\ UNCHANGED <<current_profile, jake_sample_pos, mix_idx, mix_profile,
                   mix_buf>>
    /\ UNCHANGED <<fxVars, dynVars, histVars, lifeVars, rpmVars, cfgVars, fadeVars,
                   perfVars, gearVars, shiftVars, updVars, upd_overlap,
                   rcVars, horn_active, now>>

\* get_jake_sample up to its bound check: 0 is returned without a read when
\* the profile has no jake brake.
MixJakeCheck ==
    /\ mix_pc = "jake"
    /\ mix_profile' = current_profile
    /\ IF ~HasJakeBrake(current_profile)
       THEN /\ mix_pc' = "jake_skipped"
            /\ UNCHANGED <<jake_sample_pos, mix_idx>>
       ELSE /\ mix_pc' = "jake_checked"
            /\ IF jake_sample_pos >= JakeSampleCount(current_profile)
               THEN jake_sample_pos' = 0 /\ mix_idx' = 0
               ELSE mix_idx' = jake_sample_pos /\ UNCHANGED jake_sample_pos
    /\ UNCHANGED <<current_profile, idle_sample_pos, mix_buf>>
    /\ UNCHANGED <<fxVars, dynVars, histVars, lifeVars, rpmVars, cfgVars, fadeVars,
                   perfVars, gearVars, shiftVars, updVars, upd_overlap,
                   rcVars, horn_active, now>>

\* get_jake_sample's read of samples[idx].
MixJakeRead ==
    /\ mix_pc = "jake_checked"
    /\ \E buf \in {mix_profile, current_profile} : mix_buf' = buf
    /\ mix_pc' = "jake_read"
    /\ UNCHANGED <<current_profile, idle_sample_pos, jake_sample_pos, mix_idx,
                   mix_profile>>
    /\ UNCHANGED <<fxVars, dynVars, histVars, lifeVars, rpmVars, cfgVars, fadeVars,
                   perfVars, gearVars, shiftVars, updVars, upd_overlap,
                   rcVars, horn_active, now>>

\* mix_engine_samples after the jake-brake sample: the cursor advances and
\* wraps.
MixJakeAdvance ==
    /\ mix_pc \in {"jake_read", "jake_skipped"}
    /\ jake_sample_pos' =
          IF jake_sample_pos + 1 >= JakeSampleCount(current_profile) THEN 0
          ELSE jake_sample_pos + 1
    /\ mix_pc' = "top"
    /\ UNCHANGED <<current_profile, idle_sample_pos, mix_idx, mix_profile,
                   mix_buf>>
    /\ UNCHANGED <<fxVars, dynVars, histVars, lifeVars, rpmVars, cfgVars, fadeVars,
                   perfVars, gearVars, shiftVars, updVars, upd_overlap,
                   rcVars, horn_active, now>>

\* engine_sound_set_profile(profile) for a valid index, called from the web
\* task or the menu.  It holds engine_mutex, which the audio task never
\* takes.
SetProfile(profile) ==
    /\ engine_task_running
    /\ profile < SOUND_PROFILE_COUNT
    /\ config_profile' = profile
    /\ current_profile' = SoundProfilesGet(profile)
    /\ knock_interval' = CylinderCount(SoundProfilesGet(profile))
    /\ idle_sample_pos' = 0
    /\ rev_sample_pos' = 0
    /\ knock_sample_pos' = 0
    /\ jake_sample_pos' = 0
    /\ set_profile_ret' = ESP_OK
    /\ UNCHANGED <<mix_pc, mix_idx, mix_profile, mix_buf>>
    /\ idle_sample_frac' = 0
    /\ last_knock_pos' = 0
    /\ knock_counter' = 0
    /\ UNCHANGED <<knock_start_point, hist_last_pass>>
    /\ UNCHANGED extVars
    /\ hist_pass_knocks' = 0
    /\ UNCHANGED <<xfVars, blobVars, retVars, mode_switch_sample_pos>>
    /\ UNCHANGED <<nvsVars, sfxVars, dynVars, histVars, lifeVars, rpmVars, cfgVars,
                   fadeVars, perfVars, gearVars, shiftVars, updVars, upd_overlap,
                   rcVars, horn_active, now>>

\* engine_sound_set_profile(profile) for an index out of range.
SetProfileInvalid(profile) ==
    /\ engine_task_running
    /\ profile >= SOUND_PROFILE_COUNT
    /\ set_profile_ret' = ESP_ERR_INVALID_ARG
    /\ UNCHANGED <<config_profile, knock_interval, xfVars, curVars, blobVars, retVars, knockVars, extVars>>
    /\ UNCHANGED <<nvsVars, sfxVars, dynVars, histVars, mixVars, lifeVars, rpmVars,
                   cfgVars, fadeVars, perfVars, gearVars, shiftVars, updVars,
                   upd_overlap, rcVars, horn_active, now>>

\* engine_sound_set_profile(profile)
EngineSoundSetProfile(profile) ==
    \/ SetProfile(profile)
    \/ SetProfileInvalid(profile)

\* mix_engine_samples: one output sample of the rev layer, the knock overlay
\* and the mode-switch effect; knock tells whether should_trigger_knock
\* starts a new knock.
MixLayers(knock) ==
    /\ engine_task_running
    /\ engine_state = RUNNING /\ engine_enabled
    /\ mix_pc = "top"
    /\ rev_sample_pos' = IF rev_sample_pos + 1 >= RevSamples THEN 0
                         ELSE rev_sample_pos + 1
    /\ LET pos == IF knock THEN 0 ELSE knock_sample_pos
       IN  knock_sample_pos' = IF pos < KnockSamples THEN pos + 1 ELSE pos
    /\ IF mode_switch_trigger
       THEN IF mode_switch_sample_pos < ModeSwitchSamples
            THEN /\ mode_switch_sample_pos' = mode_switch_sample_pos + 1
                 /\ UNCHANGED mode_switch_trigger
            ELSE /\ mode_switch_trigger' = FALSE
                 /\ mode_switch_sample_pos' = 0
       ELSE UNCHANGED <<mode_switch_trigger, mode_switch_sample_pos>>
    /\ UNCHANGED <<nvs_save_timer, nvs_timer_armed, nvs_timer_remaining,
                   nvs_config_dirty, active_volume_level, master_volume_level1,
                   master_volume_level2, nvs_saved, nvs_calls, nvs_writes>>
    /\ UNCHANGED <<xfVars, profVars, blobVars, retVars, knockVars, extVars>>
    /\ UNCHANGED <<sfxVars, dynVars, histVars, mixVars, lifeVars, rpmVars, cfgVars,
                   fadeVars, perfVars, gearVars, shiftVars, updVars, upd_overlap,
                   rcVars, horn_active, now>>

\* ------------------------------------------------------------------------
\* engine_sound.c: engine_sound_update (transmission and RPM target)
\* ------------------------------------------------------------------------
\* Engine load for effective throttle eff at RPM rpm.
EngineLoad(eff, rpm, braking, neutral, pct) ==
    IF braking \/ neutral THEN 0
    ELSE LET actual_range == MaxRpm(pct) - IDLE_RPM
             raw == CDiv(eff * actual_range, 500) - (rpm - IDLE_RPM)
         IN  IF raw < 0 THEN 0 ELSE IF raw > 180 THEN 180 ELSE raw

\* Load-dependent shift points.
UpshiftPoint(pct, load) ==
    LET rpm_range == MaxRpm(pct) - IDLE_RPM
        upshift_base == IDLE_RPM + CDiv(rpm_range * 78, 100)
        upshift_max == IDLE_RPM + CDiv(rpm_range * 98, 100)
    IN  upshift_base + CDiv((upshift_max - upshift_base) * load, 180)

DownshiftPoint(pct, load) ==
    LET rpm_range == MaxRpm(pct) - IDLE_RPM
        downshift_base == IDLE_RPM + CDiv(rpm_range * 30, 100)
        downshift_max == IDLE_RPM + CDiv(rpm_range * 50, 100)
    IN  downshift_base + CDiv((downshift_max - downshift_base) * load, 180)

\* Kickdown: high load, not within 20 RPM of the maximum, gear above 2nd.
KickdownAllowed(load, rpm, gear, pct) ==
    load > 100 /\ ~(rpm >= MaxRpm(pct) - 20) /\ gear > 2

\* An upshift condition that does not look at the RPM.
UpshiftCondAnyRpm(rpm, load, gear, lu, ld, settled, braking, pct) ==
    /\ now - ld > 800
    /\ now - lu > 800
    /\ (settled \/ now - lu > 2000)
    /\ load < 10
    /\ gear < 3
    /\ ~braking

\* A downshift condition that does not look at the RPM, the load or the
\* brake.
DownshiftCondAnyRpm(rpm, load, gear, lu, ld, braking, pct) ==
    /\ now - lu > 800
    /\ now - ld > 800
    /\ gear > 1

\* No upshift at all.
UpshiftCondNever(rpm, load, gear, lu, ld, settled, braking, pct) == FALSE

\* The upshift condition of the gear selection.
UpshiftCond(rpm, load, gear, lu, ld, settled, braking, pct) ==
    /\ now - ld > 800
    /\ now - lu > 800
    /\ (settled \/ now - lu > 2000)
    /\ rpm >= UpshiftPoint(pct, load)
    /\ load < 10
    /\ gear < 3
    /\ ~braking

\* The downshift condition of the gear selection.
DownshiftCond(rpm, load, gear, lu, ld, braking, pct) ==
    /\ now - lu > 800
    /\ now - ld > 800
    /\ gear > 1
    /\ (rpm <= DownshiftPoint(pct, load)
        \/ KickdownAllowed(load, rpm, gear, pct)
        \/ braking)

\* A gear selection without the reverse gear and without shifts.
GearSelectForwardOnly(rpm, load, gear, lu, ld, settled, braking, in_reverse, pct) ==
    [gear |-> IF gear = 0 THEN 1 ELSE gear, lu |-> lu, ld |-> ld,
     settled |-> settled, raised |-> FALSE]

\* Gear selection of one call: the new gear, lockout timers and settle flag,
\* and whether the shift event was raised.
GearSelect(rpm, load, gear, lu, ld, settled, braking, in_reverse, pct) ==
    IF in_reverse THEN
        [gear |-> 0, lu |-> lu, ld |-> ld, settled |-> settled, raised |-> FALSE]
    ELSE IF gear = 0 THEN
        [gear |-> 1, lu |-> lu, ld |-> ld, settled |-> settled, raised |-> FALSE]
    ELSE
        LET settled1 == settled \/ rpm < UpshiftPoint(pct, load) - 30
            up == UpshiftCond(rpm, load, gear, lu, ld, settled1, braking, pct)
            gear1 == IF up THEN gear + 1 ELSE gear
            lu1 == IF up THEN now ELSE lu
            settled2 == IF up THEN FALSE ELSE settled1
            down == DownshiftCond(rpm, load, gear1, lu1, ld, braking, pct)
        IN  [gear |-> IF down THEN gear1 - 1 ELSE gear1,
             lu |-> lu1,
             ld |-> IF down THEN now ELSE ld,
             settled |-> IF down THEN TRUE ELSE settled2,
             raised |-> up \/ down]

\* gear_ratios[gear], times 10
GearRatio(gear) == IF gear = 1 THEN 25 ELSE IF gear = 2 THEN 15 ELSE 10

\* The RPM target of one call.
NewTargetRpm(vs, eff, gear, load, braking, max_rpm) ==
    LET slip == IF braking THEN 0 ELSE IF gear <= 1 THEN load * 2 ELSE load
        by_speed == CDiv(vs * GearRatio(gear), 10) + slip
        t == IF braking /\ vs < CLUTCH_ENGAGING_POINT THEN IDLE_RPM
             ELSE IF vs < CLUTCH_ENGAGING_POINT /\ ~braking
                  THEN IDLE_RPM + CDiv(eff * (MAX_RPM - IDLE_RPM), 500)
             ELSE IF by_speed < IDLE_RPM THEN IDLE_RPM ELSE by_speed
    IN  IF t > max_rpm THEN max_rpm ELSE t

\* The direction signal of one call: moving backwards, or stopped and
\* accelerating into reverse.
InReverse(throttle, speed, braking, direction) ==
    \/ speed < -50
    \/ (Abs(speed) < 50 /\ direction = -1 /\ ~braking /\ throttle < -100)

\* engine_sound_update(throttle, speed) from its entry through the gear
\* selection: what it computes from the state it finds.  braking and
\* direction are what the tuning layer reports.
UpdateCalc(throttle, speed, braking, direction) ==
    LET abs_speed == Abs(speed)
        throttle_neutral == throttle > -50 /\ throttle < 50
        eff == IF ~braking /\ ~throttle_neutral THEN CDiv(Abs(throttle), 2) ELSE 0
        in_reverse == InReverse(throttle, speed, braking, direction)
        load == EngineLoad(eff, current_rpm, braking, throttle_neutral,
                           max_rpm_percentage)
    IN  [speed |-> CDiv(abs_speed, 2),
         eff |-> eff,
         load |-> load,
         braking |-> braking,
         max_rpm |-> MaxRpm(max_rpm_percentage),
         g |-> GearSelect(current_rpm, load, current_gear, last_upshift_time,
                          last_downshift_time, rpm_settled_after_upshift,
                          braking, in_reverse, max_rpm_percentage)]

\* The stores of the gear selection.
UpdateGears(u) ==
    /\ current_gear' = u.g.gear
    /\ last_upshift_time' = u.g.lu
    /\ last_downshift_time' = u.g.ld
    /\ rpm_settled_after_upshift' = u.g.settled
    /\ gear_shift_trigger' = (gear_shift_trigger \/ u.g.raised)

\* engine_sound_update from the RPM calculation to its end: the RPM target
\* is stored and the gear clunk is armed if the shift event is (still) raised.
UpdateFinish ==
    /\ update_pc = "mid"
    /\ target_rpm' = NewTargetRpm(upd_speed, upd_throttle, current_gear,
                                  upd_load, upd_braking, upd_max_rpm)
    /\ IF gear_shift_trigger /\ ~gear_shift_sound_trigger
       THEN /\ gear_shift_sound_trigger' = TRUE
            /\ gear_shift_sound_pos' = 0
       ELSE UNCHANGED <<gear_shift_sound_trigger, gear_shift_sound_pos>>
    /\ update_pc' = "idle"
    /\ upd_braking' = FALSE
    /\ upd_throttle' = 0
    /\ upd_max_rpm' = 0
    /\ upd_load' = 0
    /\ upd_speed' = 0
    /\ upd_gear_changed' = FALSE
    /\ upd_overlap' = FALSE
    /\ UNCHANGED <<current_rpm, rpm_update_counter>>
    /\ UNCHANGED <<gear_shift_trigger, gear_shift_start_time, gear_shift_attenuation>>
    /\ UNCHANGED <<fxVars, dynVars, histVars, mixVars, lifeVars, cfgVars, fadeVars, perfVars,
                   gearVars, rcVars, horn_active, now>>

\* ------------------------------------------------------------------------
\* main.c: one pass of process_control_loop with a valid signal
\* ------------------------------------------------------------------------
DIRECT == "DIRECT"
REALISTIC == "REALISTIC"

\* Mode and throttle read from the RC receiver in the drive model: the full
\* range of the stick in direct mode, and a throttle just past the ESC
\* deadzone in realistic mode.
DriveInputs == {<<DIRECT, -1000>>, <<DIRECT, 1000>>,
                <<REALISTIC, -40>>, <<REALISTIC, 40>>}

\* tuning_calc_esc_pulse up to the realistic-throttle step: the deadzone
\* (the forward and reverse limits are at 100 percent).
EscThrottle(t) == IF t > -TUNING_DEFAULT_ESC_DEADZONE /\ t < TUNING_DEFAULT_ESC_DEADZONE THEN 0 ELSE t

\* tuning_calc_esc_pulse(throttle) as far as the simulator is concerned:
\* the simulator runs in realistic mode only.
TuningResult(mode, throttle) ==
    IF mode = REALISTIC
    THEN RealisticThrottle(EscThrottle(throttle), simulated_velocity,
                           last_direction, throttle_released,
                           coast_rate, brake_force)
    ELSE [v |-> simulated_velocity, ld |-> last_direction,
          tr |-> throttle_released, br |-> currently_braking]

\* sound_velocity: the simulated velocity in realistic mode, else the throttle.
SoundVelocity(mode, throttle, r) == IF mode = REALISTIC THEN r.v ELSE throttle

\* What the pass hands to engine_sound_update and what that computes.
TickCalc(mode, throttle) ==
    LET r == TuningResult(mode, throttle)
    IN  UpdateCalc(throttle, SoundVelocity(mode, throttle, r), r.br, r.ld)

\* The stores of the tuning layer in one pass.
TuningStores(mode, throttle) ==
    LET r == TuningResult(mode, throttle)
    IN  /\ simulated_velocity' = r.v
        /\ last_direction' = r.ld
        /\ throttle_released' = r.tr
        /\ currently_braking' = r.br
        /\ UNCHANGED <<coast_rate, brake_force, histVars>>

\* The control loop up to the gear selection inside engine_sound_update.
ControlTick(mode, throttle) ==
    LET u == TickCalc(mode, throttle)
    IN  /\ update_pc = "idle"
        /\ start_pc = "idle"
        /\ TuningStores(mode, throttle)
        /\ IF engine_state = RUNNING
           THEN /\ UpdateGears(u)
                /\ update_pc' = "mid"
                /\ upd_braking' = u.braking
                /\ upd_throttle' = u.eff
                /\ upd_max_rpm' = u.max_rpm
                /\ upd_load' = u.load
                /\ upd_speed' = u.speed
                /\ upd_gear_changed' = (u.g.gear # current_gear)
           ELSE UNCHANGED <<gearVars, gear_shift_trigger, updVars>>
        /\ UNCHANGED <<gear_shift_start_time, gear_shift_attenuation,
                       gear_shift_sound_trigger, gear_shift_sound_pos>>
        /\ UNCHANGED <<fxVars, mixVars, lifeVars, rpmVars, cfgVars, fadeVars, perfVars,
                       upd_overlap, rcVars, horn_active, now>>

\* tuning_is_motor_stopped() after the tuning step of the pass.
MotorStopped(mode, throttle) ==
    Abs(TuningResult(mode, throttle).v) < motor_cutoff

\* The air-brake detector without the edge: it fires on every pass that
\* finds the motor stopped.
AirBrakeFiresWhileStopped(motor_stopped, peak) ==
    motor_stopped /\ peak > 100 /\ ~air_brake_trigger

\* engine_sound_update: the air brake is triggered in this pass.  peak is
\* the peak speed after this pass's tracking.
AirBrakeFires(motor_stopped, peak) ==
    /\ motor_stopped /\ ~was_motor_stopped
    /\ peak > 100
    /\ ~air_brake_trigger

\* The wastegate detector without the cooldown.
WastegateFiresNoCooldown(eff) ==
    /\ prev_throttle_for_wastegate > 150
    /\ prev_throttle_for_wastegate - eff > 80
    /\ ~wastegate_trigger

\* engine_sound_update: the wastegate is triggered in this pass.
WastegateFires(eff) ==
    /\ prev_throttle_for_wastegate > 150
    /\ prev_throttle_for_wastegate - eff > 80
    /\ ~wastegate_trigger
    /\ now - wastegate_lockout_time > 1000

\* engine_sound_update: the trigger detection of the air brake and of the
\* wastegate.
SoundEffects(mode, throttle, u) ==
    LET motor_stopped == MotorStopped(mode, throttle)
        tracked == IF ~motor_stopped /\ u.speed > peak_vehicle_speed
                   THEN u.speed ELSE peak_vehicle_speed
        ab_fire == AirBrakeFires(motor_stopped, tracked)
        ab_trigger == air_brake_trigger \/ ab_fire
        wg_fire == WastegateFires(u.eff)
    IN  /\ air_brake_trigger' = ab_trigger
        /\ was_motor_stopped' = motor_stopped
        /\ peak_vehicle_speed' =
               IF ~motor_stopped /\ u.eff > 50 THEN u.speed
               ELSE IF u.speed < CDiv(motor_cutoff, 2) /\ ~ab_trigger THEN 0
               ELSE IF ab_fire THEN 0
               ELSE tracked
        /\ hist_speed_exceeded' =
               IF ab_fire THEN FALSE
               ELSE hist_speed_exceeded \/ (~motor_stopped /\ u.speed > 100)
        /\ wastegate_trigger' = (wastegate_trigger \/ wg_fire)
        /\ wastegate_lockout_time' = IF wg_fire THEN now ELSE wastegate_lockout_time
        /\ hist_wastegate_age' = IF wg_fire THEN 0 ELSE hist_wastegate_age
        /\ hist_direct_fast' = (mode # REALISTIC /\ u.speed > 100)
        /\ prev_throttle_for_wastegate' =
               IF u.eff > 80 THEN u.eff
               ELSE IF u.eff < 30 THEN 0
               ELSE IF wg_fire THEN 0
               ELSE prev_throttle_for_wastegate
        /\ UNCHANGED motor_cutoff

\* One pass of the control loop, engine_sound_update included, with no step
\* of another task inside it: the tuning layer, the gears, the target RPM
\* and the clunk.
ControlPassBody(mode, throttle, u) ==
    LET raised == gear_shift_trigger \/ u.g.raised
    IN  /\ update_pc = "idle"
        /\ start_pc = "idle"
        /\ TuningStores(mode, throttle)
        /\ IF engine_state = RUNNING
           THEN /\ UpdateGears(u)
                /\ target_rpm' = NewTargetRpm(u.speed, u.eff, u.g.gear, u.load,
                                              u.braking, u.max_rpm)
                /\ IF raised /\ ~gear_shift_sound_trigger
                   THEN /\ gear_shift_sound_trigger' = TRUE
                        /\ gear_shift_sound_pos' = 0
                   ELSE UNCHANGED <<gear_shift_sound_trigger, gear_shift_sound_pos>>
           ELSE UNCHANGED <<gearVars, gear_shift_trigger, target_rpm,
                            gear_shift_sound_trigger, gear_shift_sound_pos>>
        /\ UNCHANGED <<current_rpm, rpm_update_counter>>
        /\ UNCHANGED <<gear_shift_start_time, gear_shift_attenuation>>
        /\ UNCHANGED <<nvsVars, sndVars, mixVars, lifeVars, cfgVars, fadeVars, perfVars, updVars,
                       upd_overlap, rcVars, horn_active, now>>

\* The whole pass, the effect detectors included.
ControlPass(mode, throttle) ==
    \E u \in {TickCalc(mode, throttle)} :
        /\ ControlPassBody(mode, throttle, u)
        /\ IF engine_state = RUNNING
           THEN SoundEffects(mode, throttle, u)
           ELSE UNCHANGED sfxVars

\* The pass in a specification that does not observe the effect detectors,
\* whose state nothing else in the pass reads.
ControlPassGears(mode, throttle) ==
    \E u \in {TickCalc(mode, throttle)} :
        /\ ControlPassBody(mode, throttle, u)
        /\ UNCHANGED sfxVars

\* A pass of the control loop that finds the signal lost.
SignalLost ==
    /\ update_pc = "idle"
    /\ start_pc = "idle"
    /\ ResetRealisticThrottle
    /\ UNCHANGED engineVars

\* Values of max_rpm_percentage written by engine_sound_set_config.
MaxRpmPercentages == {200, 300}

\* engine_sound_set_config(new_config)
SetConfig(pct, acc, dec) ==
    /\ max_rpm_percentage' = pct
    /\ acceleration' = acc
    /\ deceleration' = dec
    /\ UNCHANGED <<fxVars, dynVars, histVars, mixVars, lifeVars, rpmVars, fadeVars, perfVars,
                   gearVars, shiftVars, updVars, upd_overlap, rcVars, horn_active, now>>

\* ------------------------------------------------------------------------
\* Initial states
\* ------------------------------------------------------------------------
\* tuning.c static initialisers, with the ESC tuning cr / bf in force.
InitTuning(cr, bf) ==
    /\ simulated_velocity = 0
    /\ last_direction = 0
    /\ throttle_released = TRUE
    /\ currently_braking = FALSE
    /\ coast_rate = cr
    /\ brake_force = bf
    /\ hist_direction = 0
    /\ hist_neutral = FALSE
    /\ hist_reversed = FALSE

\* engine_sound.c and perf_metrics.c after app_main has called
\* engine_sound_init(), which has loaded a config with the rates acc / dec;
\* perf_metrics_init() is not called by the firmware.
InitEngineBase(acc, dec) ==
    /\ engine_enabled = TRUE
    /\ start_pc = "idle"
    /\ start_bufs = 0
    /\ target_rpm = IDLE_RPM
    /\ rpm_update_counter = 0
    /\ max_rpm_percentage = DEFAULT_MAX_RPM_PERCENTAGE
    /\ acceleration = acc
    /\ deceleration = dec
    /\ shutdown_attenuation = 1
    /\ shutdown_speed_pct = 100
    /\ last_shutdown_update = 0
    /\ horn_active = FALSE
    /\ audio_underruns = 0
    /\ metrics_initialized = FALSE
    /\ current_gear = 1
    /\ last_upshift_time = 0
    /\ last_downshift_time = 0
    /\ rpm_settled_after_upshift = TRUE
    /\ gear_shift_trigger = FALSE
    /\ gear_shift_start_time = 0
    /\ gear_shift_attenuation = 0
    /\ gear_shift_sound_trigger = FALSE
    /\ gear_shift_sound_pos = 0
    /\ update_pc = "idle"
    /\ upd_braking = FALSE
    /\ upd_throttle = 0
    /\ upd_max_rpm = 0
    /\ upd_load = 0
    /\ upd_speed = 0
    /\ upd_gear_changed = FALSE
    /\ upd_overlap = FALSE
    /\ rc_mode = DIRECT
    /\ rc_throttle = 0
    /\ current_profile = CAT_3408
    /\ idle_sample_pos = 0
    /\ jake_sample_pos = 0
    /\ mix_pc = "top"
    /\ mix_idx = 0
    /\ mix_profile = CAT_3408
    /\ mix_buf = CAT_3408
    /\ nvs_timer_armed = FALSE
    /\ nvs_timer_remaining = 0
    /\ nvs_config_dirty = FALSE
    /\ active_volume_level = 0
    /\ master_volume_level1 = VolumePreset(1)
    /\ master_volume_level2 = DEFAULT_MASTER_VOLUME_LEVEL2
    /\ mode_switch_trigger = FALSE
    /\ nvs_calls = 0
    /\ nvs_writes = 0
    /\ motor_cutoff = MotorCutoff
    /\ peak_vehicle_speed = 0
    /\ was_motor_stopped = TRUE
    /\ air_brake_trigger = FALSE
    /\ wastegate_trigger = FALSE
    /\ wastegate_lockout_time = 0
    /\ prev_throttle_for_wastegate = 0
    /\ hist_speed_exceeded = FALSE
    /\ hist_wastegate_age = MaxNow
    /\ hist_direct_fast = FALSE
    /\ rev_sample_pos = 0
    /\ knock_sample_pos = 0
    /\ mode_switch_sample_pos = 0
    /\ config_profile = CAT_3408
    /\ knock_interval = CylinderCount(CAT_3408)
    /\ set_profile_ret = ESP_OK
    /\ config_magic = SOUND_CONFIG_MAGIC
    /\ config_version = SOUND_CONFIG_VERSION
    /\ volume_preset_low = DEFAULT_VOLUME_PRESET_LOW
    /\ idle_volume = DEFAULT_IDLE_VOLUME
    /\ init_ret = ESP_OK
    /\ config_source = "static"
    /\ start_ret = ESP_OK
    /\ play_ret = ESP_OK
    /\ idle_sample_frac = 0
    /\ last_knock_pos = 0
    /\ knock_counter = 0
    /\ knock_start_point = DEFAULT_KNOCK_START_POINT
    /\ hist_pass_knocks = 0
    /\ hist_last_pass = -1
    /\ web_pc = "idle"
    /\ web_cfg = SoundConfigDefaults
    /\ menu_state = MENU_STATE_INACTIVE
    /\ category_index = 0
    /\ option_index = 0
    /\ last_activity_time = 0
    /\ aux2_was_pressed = FALSE
    /\ aux2_press_start = 0
    /\ aux2_longpress_handled = FALSE
    /\ aux1_was_pressed = FALSE
    /\ btn_state = BTN_STATE_IDLE
    /\ last_press_time = 0
    /\ last_release_time = 0
    /\ press_count = 0
    /\ current_mode = STEER_MODE_FRONT
    /\ last_normal_mode = STEER_MODE_FRONT
    /\ longpress_handled = FALSE
    /\ steering_enabled = TRUE
    /\ app_state = APP_STATE_RUNNING
    /\ hist_exit_press = FALSE
    /\ hist_menu_press = FALSE
    /\ hist_running_at_entry = FALSE
    /\ hist_menu_was_active = FALSE

\* The state after engine_sound_init() with nothing in persistent storage:
\* the RPM at idle and the default crossfade points.
InitEngineWith(acc, dec) ==
    /\ InitEngineBase(acc, dec)
    /\ now = 0
    /\ engine_state = OFF
    /\ engine_task_running = TRUE
    /\ nvs_save_timer = TRUE
    /\ current_rpm = IDLE_RPM
    /\ rev_switch_point = DEFAULT_REV_SWITCH_POINT
    /\ idle_end_point = DEFAULT_IDLE_END_POINT
    /\ idle_prop = IDLE_PROPORTION_MAX
    /\ rev_prop = 100 - IDLE_PROPORTION_MAX
    /\ nvs_saved = SoundConfig

\* The default config.
InitEngine == InitEngineWith(DEFAULT_ACCELERATION, DEFAULT_DECELERATION)

\* ------------------------------------------------------------------------
\* Specification of the dynamics simulator alone
\* ------------------------------------------------------------------------
InitDyn ==
    /\ \E cr \in CoastRates, bf \in BrakeForces : InitTuning(cr, bf)
    /\ InitEngine

DynTick ==
    /\ \E t \in Throttles : ApplyRealisticThrottle(t)
    /\ UNCHANGED engineVars

DynReset ==
    /\ ResetRealisticThrottle
    /\ UNCHANGED engineVars

NextDyn ==
    \/ DynTick
    \/ DynReset

SpecDyn == InitDyn /\ [][NextDyn]_vars

\* ------------------------------------------------------------------------
\* Specification of the engine lifecycle: the lifecycle API called in any
\* order from the control loop and from other tasks, the audio task, the
\* horn and the clock
\* ------------------------------------------------------------------------
InitLife ==
    /\ InitTuning(TUNING_DEFAULT_COAST_RATE, TUNING_DEFAULT_BRAKE_FORCE)
    /\ InitEngine

LifeStartPlay == \E write_ok \in BOOLEAN : StartPlay(write_ok)

LifeEnable == \E enable \in BOOLEAN : EngineEnable(enable)

LifeHorn == \E active \in BOOLEAN : SetHorn(active)

AudioTask == \E write_ok \in BOOLEAN : AudioCycle(write_ok)

LifeTick == Tick(TimeStepLong)

NextLife ==
    \/ EngineInit
    \/ EngineDeinit
    \/ StartBegin
    \/ LifeStartPlay
    \/ StartEnd
    \/ EngineStop
    \/ LifeEnable
    \/ LifeHorn
    \/ AudioTask
    \/ LifeTick

SpecLife == InitLife /\ [][NextLife]_vars

\* The audio task keeps being scheduled, the clock advances and the start
\* sample, which is finite, is played to its end.
SpecLifeFair ==
    /\ SpecLife
    /\ WF_vars(AudioTask)
    /\ WF_vars(LifeTick)
    /\ WF_vars(LifeStartPlay)
    /\ WF_vars(StartEnd)

\* ------------------------------------------------------------------------
\* Specification of the deferred config save: the volume API called at any
\* time, the save timer, the clock and the shutdown of the sound system
\* ------------------------------------------------------------------------
NvsPreset == \E index \in 0..2 : SetVolumePreset(index)

\* The clock advances by NvsStep, or up to the expiry of the armed timer.
NvsTick ==
    Tick(IF nvs_timer_armed /\ nvs_timer_remaining < NvsStep
         THEN nvs_timer_remaining ELSE NvsStep)

NextNvs ==
    \/ ToggleVolumeLevel
    \/ NvsPreset
    \/ NvsTimerCallback
    \/ NvsTick
    \/ EngineDeinit

SpecNvs == InitLife /\ [][NextNvs]_vars

\* ------------------------------------------------------------------------
\* Specification of the running engine: control loop, audio task and clock.
\* The config has the quickest RPM response (rates 9 and 5) and the tuning
\* the quickest vehicle response (coast rate 0).  The driver moves the
\* sticks only while the RPM has settled on its target, which keeps the RPM
\* on the ramps between idle and maximum.
\* ------------------------------------------------------------------------
InitDrive ==
    /\ InitTuning(0, TUNING_DEFAULT_BRAKE_FORCE)
    /\ InitEngineWith(MAX_ACCELERATION, MAX_DECELERATION)

\* The driver moves the mode switch and the throttle stick.
RcChange(mode, throttle) ==
    /\ current_rpm = target_rpm
    /\ update_pc = "idle"
    /\ rc_mode' = mode
    /\ rc_throttle' = throttle
    /\ UNCHANGED <<fxVars, dynVars, histVars, mixVars, lifeVars, rpmVars, cfgVars, fadeVars,
                   perfVars, gearVars, shiftVars, updVars, upd_overlap,
                   horn_active, now>>

DriveRc == \E in \in DriveInputs : RcChange(in[1], in[2])

\* AUX4 rising edge in process_control_loop: start when Off, else stop.
Aux4Start ==
    /\ engine_state = OFF
    /\ StartBegin

Aux4Stop ==
    /\ engine_state # OFF
    /\ start_pc = "idle"
    /\ update_pc = "idle"
    /\ EngineStop

DrivePass == ControlPassGears(rc_mode, rc_throttle)

DriveClock == Tick(TimeStepLong)

NextDrive ==
    \/ Aux4Start
    \/ LifeStartPlay
    \/ StartEnd
    \/ DriveRc
    \/ DrivePass
    \/ AudioTask
    \/ DriveClock

SpecDrive == InitDrive /\ [][NextDrive]_vars

\* ------------------------------------------------------------------------
\* Specification of the shift event: as the running engine, with the audio
\* task, on the other core, running inside engine_sound_update
\* ------------------------------------------------------------------------
DriveTick == ControlTick(rc_mode, rc_throttle)

NextShift ==
    \/ Aux4Start
    \/ LifeStartPlay
    \/ StartEnd
    \/ DriveRc
    \/ DriveTick
    \/ UpdateFinish
    \/ AudioTask
    \/ DriveClock

SpecShift == InitDrive /\ [][NextShift]_vars

\* ------------------------------------------------------------------------
\* Specification of the RPM controller: the vehicle stands with the sticks
\* at neutral while the engine is started and stopped from AUX4, the control
\* loop and the audio task run, and the web interface calls
\* engine_sound_set_rpm and engine_sound_set_config
\* ------------------------------------------------------------------------
RpmStop ==
    /\ current_rpm = target_rpm
    /\ Aux4Stop

RpmSetRpm ==
    /\ current_rpm = target_rpm
    /\ \E rpm \in RpmInputs : SetRpm(rpm)

RpmSetConfig ==
    /\ current_rpm = target_rpm
    /\ \E pct \in MaxRpmPercentages :
        SetConfig(pct, MAX_ACCELERATION, MAX_DECELERATION)

NextRpm ==
    \/ Aux4Start
    \/ LifeStartPlay
    \/ StartEnd
    \/ RpmStop
    \/ DrivePass
    \/ AudioTask
    \/ RpmSetRpm
    \/ RpmSetConfig
    \/ DriveClock

SpecRpm == InitDrive /\ [][NextRpm]_vars

\* ------------------------------------------------------------------------
\* Specification of the dynamics simulator under a throttle stick that the
\* driver moves between ticks, with the default ESC tuning; the control loop
\* keeps ticking
\* ------------------------------------------------------------------------
HoldMove == \E t \in Throttles : RcChange(REALISTIC, t)

HoldTick ==
    /\ ApplyRealisticThrottle(rc_throttle)
    /\ UNCHANGED engineVars

NextHold ==
    \/ HoldMove
    \/ HoldTick

SpecHold == InitLife /\ [][NextHold]_vars /\ WF_vars(HoldTick)

\* ------------------------------------------------------------------------
\* Specification of the full-throttle run: the engine is started with the
\* stick in neutral, then the driver pushes the stick to +1000 in realistic
\* mode and holds it; control loop, audio task and clock keep running
\* ------------------------------------------------------------------------
ClimbRc ==
    /\ engine_state = RUNNING
    /\ RcChange(REALISTIC, 1000)

\* The audio task, which runs many cycles per control tick, has brought the
\* RPM to its target when the next pass of the control loop runs.
ClimbPass ==
    /\ current_rpm = target_rpm
    /\ DrivePass

\* The clock is read between passes of the control loop.
ClimbClock ==
    /\ current_rpm = target_rpm
    /\ DriveClock

NextClimb ==
    \/ Aux4Start
    \/ LifeStartPlay
    \/ StartEnd
    \/ ClimbRc
    \/ ClimbPass
    \/ AudioTask
    \/ ClimbClock

SpecClimb ==
    /\ InitDrive
    /\ [][NextClimb]_vars
    /\ WF_vars(ClimbPass)
    /\ WF_vars(AudioTask)
    /\ WF_vars(ClimbClock)

\* ------------------------------------------------------------------------
\* Specification of the mixer: the engine is started, the audio task mixes
\* sample by sample and another task switches the profile
\* ------------------------------------------------------------------------
MixerAdvance == \E jake \in BOOLEAN : MixIdleAdvance(jake)

MixerSetProfile == \E profile \in Profiles : SetProfile(profile)

NextMixer ==
    \/ Aux4Start
    \/ LifeStartPlay
    \/ StartEnd
    \/ MixIdleCheck
    \/ MixIdleRead
    \/ MixerAdvance
    \/ MixJakeCheck
    \/ MixJakeRead
    \/ MixJakeAdvance
    \/ MixerSetProfile

SpecMixer == InitLife /\ [][NextMixer]_vars

\* ------------------------------------------------------------------------
\* C1: in every reachable state, after any sequence of start, stop, control
\* ticks, audio-task cycles, engine_sound_set_rpm and engine_sound_set_config,
\* current_rpm and target_rpm both lie within
\* [idle_rpm, idle_rpm * max_rpm_percentage / 100].
\* engine_sound_set_config copies the new configuration and clamps nothing:
\* lowering max_rpm_percentage leaves both values above the new maximum
\* until update_rpm and the control loop next write them.
\* ------------------------------------------------------------------------
C1_RpmWithinRange ==
    /\ IDLE_RPM <= current_rpm
    /\ current_rpm <= MaxRpm(max_rpm_percentage)
    /\ IDLE_RPM <= target_rpm
    /\ target_rpm <= MaxRpm(max_rpm_percentage)

\* ------------------------------------------------------------------------
\* C3: every increase of current_gear made by a control tick happens only on
\* a tick where current_rpm >= upshift_point (computed for that tick's load),
\* engine_load < 10, the vehicle is not braking, and at least 800 ms have
\* elapsed since the last upshift and since the last downshift.
\* ------------------------------------------------------------------------
C3_UpshiftDue ==
    LET u == TickCalc(rc_mode, rc_throttle)
    IN  /\ current_rpm >= UpshiftPoint(max_rpm_percentage, u.load)
        /\ u.load < 10
        /\ ~u.braking
        /\ now - last_upshift_time > 800
        /\ now - last_downshift_time > 800

\* C3 as stated: every increase of current_gear made by a control tick is
\* made when the upshift is due.  The tick that leaves reverse sets the gear
\* from 0 to 1 without looking at any of it.
C3_EveryIncreaseIsUpshift ==
    [][(DrivePass /\ current_gear' > current_gear) => C3_UpshiftDue]_vars

\* C3 amended: every increase of current_gear out of a forward gear made by
\* a control tick is made when the upshift is due.
C3_ForwardIncreaseIsUpshift ==
    [][(DrivePass /\ current_gear >= 1 /\ current_gear' > current_gear)
          => C3_UpshiftDue]_vars

\* An upshift into 3rd gear has just been made.
C3_Witness ==
    /\ engine_state = RUNNING
    /\ current_gear = 3
    /\ now > 0
    /\ last_upshift_time = now
    /\ ~rpm_settled_after_upshift

\* ------------------------------------------------------------------------
\* C4: every decrease of current_gear made by a control tick happens only on
\* a tick where current_rpm <= downshift_point, or a kickdown holds
\* (load > 100, RPM more than 20 below max, gear 3), or the vehicle is
\* braking, and only when the 800 ms lockouts since the last upshift and the
\* last downshift are clear; a downshift into 1st gear is never caused by
\* kickdown alone.
\* ------------------------------------------------------------------------
C4_DownshiftDue ==
    LET u == TickCalc(rc_mode, rc_throttle)
        low == current_rpm <= DownshiftPoint(max_rpm_percentage, u.load)
        kickdown == /\ u.load > 100
                    /\ current_rpm < MaxRpm(max_rpm_percentage) - 20
                    /\ current_gear = 3
    IN  /\ low \/ kickdown \/ u.braking
        /\ now - last_upshift_time > 800
        /\ now - last_downshift_time > 800
        /\ current_gear' = 1 => (low \/ u.braking)

\* C4 as stated: every decrease of current_gear made by a control tick is
\* made when the downshift is due.  The tick that enters reverse sets the
\* gear to 0 without looking at any of it.
C4_EveryDecreaseIsDownshift ==
    [][(DrivePass /\ current_gear' < current_gear) => C4_DownshiftDue]_vars

\* C4 amended: every decrease of current_gear into a forward gear made by a
\* control tick is made when the downshift is due, and never into 1st gear
\* by kickdown alone.
C4_ForwardDecreaseIsDownshift ==
    [][(DrivePass /\ current_gear' >= 1 /\ current_gear' < current_gear)
          => C4_DownshiftDue]_vars

\* A downshift into a forward gear has just been made.
C4_Witness ==
    /\ engine_state = RUNNING
    /\ current_gear \in {1, 2}
    /\ now > 0
    /\ last_downshift_time = now
    /\ rpm_settled_after_upshift

\* ------------------------------------------------------------------------
\* C2: Over any sequence of simulator ticks the velocity changes sign only
\* from a tick boundary at which it is 0, and only after a tick with neutral
\* throttle has run since the velocity was last nonzero; a throttle that
\* opposes the motion brings the velocity to 0 and never past it.
\* ------------------------------------------------------------------------
C2_NoReversalWithoutNeutral ==
    [][ /\ (simulated_velocity' # 0 /\ hist_direction # 0
               /\ Sign(simulated_velocity') # hist_direction)
           => (simulated_velocity = 0 /\ hist_neutral)
        /\ \A t \in Throttles :
              (ApplyRealisticThrottle(t) /\ t * simulated_velocity < 0)
              => (/\ Sign(simulated_velocity') \in {0, Sign(simulated_velocity)}
                  /\ Abs(simulated_velocity') < Abs(simulated_velocity))
      ]_vars

\* A reverse velocity reached after forward motion (through 0 and a neutral
\* tick).
C2_Witness ==
    /\ hist_reversed
    /\ simulated_velocity < 0
    /\ currently_braking

\* ------------------------------------------------------------------------
\* C5: under every sequence and interleaving of engine_sound_start,
\* engine_sound_stop, engine_sound_enable, engine_sound_deinit and the audio
\* task, the engine state only ever changes along Off->Starting,
\* Starting->Running, Running->Stopping and Stopping->Off.
\* engine_sound_start only refuses to act when the engine is Running, and
\* sets Running after its start sound whatever happened meanwhile;
\* engine_sound_stop acts in Starting; engine_sound_deinit sets Off from any
\* state.
\* ------------------------------------------------------------------------
C5_Edges ==
    {<<OFF, STARTING>>, <<STARTING, RUNNING>>,
     <<RUNNING, STOPPING>>, <<STOPPING, OFF>>}

C5_OnlyLifecycleEdges ==
    [][engine_state' # engine_state
          => <<engine_state, engine_state'>> \in C5_Edges]_vars

\* ------------------------------------------------------------------------
\* C6: once the engine state is Stopping and the audio task keeps being
\* scheduled, the state eventually becomes Off; on that transition
\* current_rpm is idle and the shutdown attenuation and slowdown parameters
\* are back at their initial values (1 and 100), and during the fade the
\* attenuation divisor and slowdown percentage never decrease and are never 0.
\* engine_sound_start acts while the engine is Stopping: the fade is dropped
\* and the engine runs again without having been Off.
\* ------------------------------------------------------------------------
C6_FadeSteps ==
    [][/\ (engine_state = STOPPING /\ engine_state' = STOPPING)
            => /\ shutdown_attenuation' >= shutdown_attenuation
               /\ shutdown_speed_pct' >= shutdown_speed_pct
       /\ engine_state' = STOPPING
            => shutdown_attenuation' > 0 /\ shutdown_speed_pct' > 0
       /\ (engine_state = STOPPING /\ engine_state' # STOPPING)
            => /\ engine_state' = OFF
               /\ current_rpm' = IDLE_RPM
               /\ shutdown_attenuation' = 1
               /\ shutdown_speed_pct' = 100]_vars

C6_StoppingEndsOff ==
    /\ (engine_state = STOPPING) ~> (engine_state = OFF)
    /\ C6_FadeSteps

\* ------------------------------------------------------------------------
\* C7: calling engine_sound_stop while the engine state is Stopping or Off
\* changes nothing: the state, the shutdown attenuation and the slowdown
\* percentage are left as they were, so a fade already in progress is not
\* restarted.
\* ------------------------------------------------------------------------
C7_StopIsNoOpWhenStoppingOrOff ==
    [][((engine_state = STOPPING \/ engine_state = OFF) /\ EngineStop)
          => /\ engine_state' = engine_state
             /\ shutdown_attenuation' = shutdown_attenuation
             /\ shutdown_speed_pct' = shutdown_speed_pct]_vars

\* A fade is in progress: a stop that restarted it would be seen.
C7_Witness ==
    /\ engine_state = STOPPING
    /\ shutdown_attenuation > 1
    /\ shutdown_speed_pct > 100

\* ------------------------------------------------------------------------
\* C8: under every interleaving of the audio task with
\* engine_sound_set_profile, the profile switch excludes the mixer: each
\* sample the audio task reads is taken at an index below the sample count
\* of the very buffer it is read from (the mixer never combines a cursor or
\* bound checked against one profile with the sample buffer of another).
\* engine_sound_set_profile takes engine_mutex and the audio task does not:
\* the profile changes between a getter's bound check and its read.
\* ------------------------------------------------------------------------
C8_ReadWithinBuffer ==
    /\ mix_pc = "idle_read" => mix_idx < IdleSampleCount(mix_buf)
    /\ mix_pc = "jake_read" => mix_idx < JakeSampleCount(mix_buf)

\* ------------------------------------------------------------------------
\* C9: every change of current_gear made by a control tick raises the shift
\* event exactly once, and that one event both starts the shift volume
\* attenuation and arms the gear-clunk effect, under every interleaving of
\* the control tick with the audio task.
\* The formula takes the shifts between forward gears that end in 2nd or 3rd
\* while no clunk is playing: the call of engine_sound_update that made the
\* shift returns with the clunk armed.  engine_sound_update raises
\* gear_shift_trigger in the gear selection and reads it again at its end to
\* arm the clunk; a cycle of the audio task in between consumes the flag, the
\* attenuation starts and the clunk is never armed.
\* ------------------------------------------------------------------------
C9_ShiftArmsClunk ==
    [][(/\ UpdateFinish
        /\ upd_gear_changed
        /\ current_gear >= 2
        /\ ~gear_shift_sound_trigger)
          => gear_shift_sound_trigger']_vars

\* ------------------------------------------------------------------------
\* C10: whenever a write of a generated buffer to the audio output fails or
\* times out, in any lifecycle state, the underrun counter increases by
\* exactly one and the audio task goes on to its next cycle; the audio task
\* never terminates because of a failed write.
\* perf_metrics_record_underrun returns at once while the metrics are not
\* initialised, and nothing calls perf_metrics_init: the counter stays at 0.
\* ------------------------------------------------------------------------
C10_FailedWriteCountsUnderrun ==
    [][(AudioWrites /\ AudioCycle(FALSE))
          => /\ audio_underruns' = audio_underruns + 1
             /\ engine_task_running']_vars

\* ------------------------------------------------------------------------
\* C11: a burst of calls of the volume-level toggle and the volume-preset
\* selection, each less than 500 ms after the one before, is followed by
\* exactly one write of the sound config to persistent storage; the write
\* comes after the last call and stores the final in-memory config.
\* Stated for the initialised sound system, whose save timer exists: while a
\* call is unserved the timer is armed, the config is dirty and nothing has
\* been written since the last call; there is never more than one write after
\* a call, and after it storage holds the in-memory config; the timer only
\* writes when its full period has run out since the last call.
\* ------------------------------------------------------------------------
C11_WriteStep == nvs_writes' = nvs_writes + 1

C12_DeinitStep == engine_task_running /\ ~engine_task_running'

C13_ResetClearsDynamics ==
    [][ResetRealisticThrottle
          => /\ simulated_velocity' = 0
             /\ last_direction' = 0
             /\ ~currently_braking']_vars

\* ------------------------------------------------------------------------
\* C14: for every throttle value t in [-1000, 1000], if t is applied to the
\* dynamics simulator on every tick from some point on, simulated_velocity
\* eventually equals t (with the same sign) and stays equal to t.
\* A throttle that opposes the motion brakes the vehicle to a stop and is
\* then held off by the direction lockout until the stick has been in
\* neutral: the velocity stays 0 with the braking flag set.
\* ------------------------------------------------------------------------
C14_HeldThrottleIsReached ==
    \A t \in Throttles :
        <>[](rc_throttle = t) => <>[](simulated_velocity = t)

\* The held throttle is reached, or the vehicle is stopped and held by the
\* lockout of a throttle that opposes its last direction.
C14_HeldThrottleIsReachedOrLocked ==
    \A t \in Throttles :
        <>[](rc_throttle = t)
            => <>[](\/ simulated_velocity = t
                    \/ /\ simulated_velocity = 0
                       /\ currently_braking
                       /\ OpposesMotion(t, 0, last_direction))

\* Full reverse throttle held after forward motion: stopped and locked.
C14_Witness ==
    /\ rc_throttle = -1000
    /\ simulated_velocity = 0
    /\ last_direction = 1
    /\ currently_braking
    /\ hist_direction = 1

\* ------------------------------------------------------------------------
\* C15: for every sequence of throttle inputs in [-1000, 1000] and every
\* coast-rate and brake-force setting in 0..100, simulated_velocity stays
\* within [-1000, 1000] after every tick.
\* ------------------------------------------------------------------------
C15_VelocityWithinRange ==
    simulated_velocity >= -1000 /\ simulated_velocity <= 1000

\* Full reverse speed reached under the slowest acceleration.
C15_Witness ==
    /\ simulated_velocity = -1000
    /\ coast_rate = 100

\* ------------------------------------------------------------------------
\* C16: on a dynamics tick with nonzero velocity: if the throttle is neutral,
\* the braking flag is false after the tick and the velocity magnitude has
\* decreased by the coast step (clamped at 0); if the throttle opposes the
\* motion, the braking flag is true after the tick and the velocity magnitude
\* has decreased by the brake-force step (clamped at 0).
\* ------------------------------------------------------------------------
C16_TickDecays(t) ==
    /\ t = 0
        => /\ ~currently_braking'
           /\ Abs(simulated_velocity')
                = Max(0, Abs(simulated_velocity) - CoastDecel(coast_rate))
    /\ Sign(t) = -Sign(simulated_velocity)
        => /\ currently_braking'
           /\ Abs(simulated_velocity')
                = Max(0, Abs(simulated_velocity) - BrakeStrength(brake_force))
    /\ Sign(simulated_velocity') # -Sign(simulated_velocity)

C16_CoastAndBrakeSteps ==
    [][\A t \in Throttles :
          (ApplyRealisticThrottle(t) /\ simulated_velocity # 0)
              => C16_TickDecays(t)]_vars

\* A braking tick has left the vehicle moving.
C16_Witness ==
    /\ currently_braking
    /\ simulated_velocity > 0
    /\ brake_force = 0

\* ------------------------------------------------------------------------
\* C17: with idle RPM 100 and max RPM 300, from a freshly started engine
\* (Running, gear 1) and velocity 0, while the throttle is held at +1000 on
\* every control tick and the velocity rises toward it, the gear eventually
\* becomes 2 and later 3 without skipping a gear, and each of the two gear
\* changes fires exactly one shift event.
\* The gear is 1 when the stick is pushed; it reaches 3, every increase is by
\* one gear and raises the shift event, and the event is raised by no tick
\* that leaves the gear as it is.
\* ------------------------------------------------------------------------
C17_FullThrottle ==
    /\ engine_state = RUNNING
    /\ rc_mode = REALISTIC
    /\ rc_throttle = 1000

C18_TickInReverse ==
    LET r == TuningResult(rc_mode, rc_throttle)
    IN  InReverse(rc_throttle, SoundVelocity(rc_mode, rc_throttle, r), r.br, r.ld)

C18_GearZeroIffReverse ==
    [][(DrivePass /\ engine_state = RUNNING)
          => /\ (current_gear' = 0) <=> C18_TickInReverse
             /\ (current_gear = 0 /\ current_gear' # 0) => current_gear' = 1]_vars

\* Reverse entered inside the lockout of an upshift, that is from 2nd or 3rd.
C18_Witness ==
    /\ engine_state = RUNNING
    /\ current_gear = 0
    /\ last_upshift_time > 0
    /\ now - last_upshift_time <= 800

\* ------------------------------------------------------------------------
\* Specification of the one-shot effects: the air brake and the wastegate
\* ------------------------------------------------------------------------
\* Stick positions of the effect runs: released, light, full, full reverse.
FxThrottles == {-600, 0, 200, 600}

\* The stores of a stick movement.
StickMove(mode, throttle) ==
    /\ update_pc = "idle"
    /\ rc_mode' = mode
    /\ rc_throttle' = throttle
    /\ UNCHANGED <<fxVars, dynVars, histVars, mixVars, lifeVars, rpmVars, cfgVars,
                   fadeVars, perfVars, gearVars, shiftVars, updVars, upd_overlap,
                   horn_active, now>>

\* The driver moves the stick once the vehicle has settled at the speed asked
\* for or has come to rest.
FxRc ==
    /\ simulated_velocity = rc_throttle \/ simulated_velocity = 0
    /\ \E throttle \in FxThrottles : StickMove(REALISTIC, throttle)

FxPass == ControlPass(rc_mode, rc_throttle)

\* mix_engine_samples: the mixer finds the air-brake sample played to its
\* end (air_brake_enabled is set).
MixAirBrakeEnd ==
    /\ engine_task_running
    /\ engine_state = RUNNING /\ engine_enabled
    /\ air_brake_trigger
    /\ air_brake_trigger' = FALSE
    /\ UNCHANGED <<motor_cutoff, peak_vehicle_speed, was_motor_stopped,
                   wastegate_trigger, wastegate_lockout_time,
                   prev_throttle_for_wastegate, hist_speed_exceeded,
                   hist_wastegate_age, hist_direct_fast>>
    /\ UNCHANGED <<nvsVars, sndVars, dynVars, histVars, mixVars, lifeVars, rpmVars, cfgVars,
                   fadeVars, perfVars, gearVars, shiftVars, updVars, upd_overlap,
                   rcVars, horn_active, now>>

\* mix_engine_samples: the mixer finds the wastegate sample played to its
\* end (wastegate_enabled is set).
MixWastegateEnd ==
    /\ engine_task_running
    /\ engine_state = RUNNING /\ engine_enabled
    /\ wastegate_trigger
    /\ wastegate_trigger' = FALSE
    /\ UNCHANGED <<motor_cutoff, peak_vehicle_speed, was_motor_stopped,
                   air_brake_trigger, wastegate_lockout_time,
                   prev_throttle_for_wastegate, hist_speed_exceeded,
                   hist_wastegate_age, hist_direct_fast>>
    /\ UNCHANGED <<nvsVars, sndVars, dynVars, histVars, mixVars, lifeVars, rpmVars, cfgVars,
                   fadeVars, perfVars, gearVars, shiftVars, updVars, upd_overlap,
                   rcVars, horn_active, now>>

FxClock == Tick(TimeStepLong)

NextFx ==
    \/ Aux4Start
    \/ LifeStartPlay
    \/ StartEnd
    \/ FxRc
    \/ FxPass
    \/ MixAirBrakeEnd
    \/ MixWastegateEnd
    \/ FxClock

SpecFx == InitDrive /\ [][NextFx]_vars

\* ------------------------------------------------------------------------
\* C19: the air brake on a stop
\* ------------------------------------------------------------------------
\* The pass finds the motor stopped that the pass before found running.
C19_MotorJustStopped == ~was_motor_stopped /\ was_motor_stopped'

\* The pass raises the air-brake trigger.
C19_Armed == ~air_brake_trigger /\ air_brake_trigger'

C20_Eff == TickCalc(rc_mode, rc_throttle).eff

\* The effective throttle has dropped by more than 80 from a tracked peak
\* above 150 and the cooldown stamp is more than 1000 ms old.
C20_DropDue ==
    /\ prev_throttle_for_wastegate > 150
    /\ prev_throttle_for_wastegate - C20_Eff > 80
    /\ now - wastegate_lockout_time > 1000

\* The pass raises the wastegate trigger.
C20_Armed == ~wastegate_trigger /\ wastegate_trigger'

SwitchPoints == {0, 100, 120, 121, 300, 450, 65535}
\* RPM values the mixer is run with.
XfadeRpms == {0, 99, 100, 119, 120, 121, 122, 200, 285, 299, 300, 301, 449, 450,
              451, 1000, 65535}

InitXfade ==
    /\ InitTuning(TUNING_DEFAULT_COAST_RATE, TUNING_DEFAULT_BRAKE_FORCE)
    /\ InitEngineBase(DEFAULT_ACCELERATION, DEFAULT_DECELERATION)
    /\ now = 0
    /\ engine_state = OFF
    /\ engine_task_running = TRUE
    /\ nvs_save_timer = TRUE
    /\ current_rpm \in XfadeRpms
    /\ rev_switch_point \in SwitchPoints
    /\ idle_end_point \in SwitchPoints
    /\ idle_prop = IDLE_PROPORTION_MAX
    /\ rev_prop = 100 - IDLE_PROPORTION_MAX
    /\ nvs_saved = SoundConfig

\* mix_engine_samples: the crossfade proportions of a buffer.
XfadeMix ==
    /\ engine_task_running
    /\ idle_prop' = CalcIdleProportion(current_rpm)
    /\ rev_prop' = MixRevProportion(current_rpm)
    /\ UNCHANGED <<rev_switch_point, idle_end_point, curVars, profVars, blobVars, retVars, knockVars, extVars>>
    /\ UNCHANGED <<nvsVars, sfxVars, dynVars, histVars, mixVars, lifeVars, rpmVars,
                   cfgVars, fadeVars, perfVars, gearVars, shiftVars, updVars,
                   upd_overlap, rcVars, horn_active, now>>

NextXfade == XfadeMix

SpecXfade == InitXfade /\ [][NextXfade]_vars

\* ------------------------------------------------------------------------
\* C21: range and monotonicity of the crossfade proportions
\* ------------------------------------------------------------------------
\* C21: for every RPM and every pair of crossfade points the mixer's idle
\* proportion lies in [0, 90] and its rev proportion is 100 minus the idle
\* proportion; over the RPM the idle proportion never rises and the rev
\* proportion never falls.
C21_ProportionsInRangeAndMonotonic ==
    /\ [][XfadeMix => /\ idle_prop' \in 0..90
                      /\ rev_prop' = 100 - idle_prop']_vars
    /\ [](\A r1, r2 \in XfadeRpms :
             r1 <= r2 => /\ CalcIdleProportion(r1) >= CalcIdleProportion(r2)
                         /\ MixRevProportion(r1) <= MixRevProportion(r2))

\* The mixer has computed proportions inside the interpolation.
C21_Witness ==
    /\ rev_switch_point < current_rpm
    /\ current_rpm < idle_end_point
    /\ idle_prop > 0
    /\ idle_prop < IDLE_PROPORTION_MAX
    /\ rev_prop = 100 - idle_prop

\* ------------------------------------------------------------------------
\* C29: the crossfade proportions at and between the switch points
\* ------------------------------------------------------------------------
\* The position of the RPM between the two points, scaled to 0..scale.
C29_Interpolated(scale) ==
    CDiv((current_rpm - rev_switch_point) * scale, idle_end_point - rev_switch_point)

ProfileIndexes == {URAL_4320, CAT_3408, SOUND_PROFILE_COUNT, 255}

ProfSetProfile == \E profile \in ProfileIndexes : EngineSoundSetProfile(profile)

ProfMixLayers == \E knock \in BOOLEAN : MixLayers(knock)

NextProfile ==
    \/ Aux4Start
    \/ LifeStartPlay
    \/ StartEnd
    \/ ToggleVolumeLevel
    \/ MixIdleCheck
    \/ MixIdleRead
    \/ MixerAdvance
    \/ ProfMixLayers
    \/ ProfSetProfile

SpecProfile == InitLife /\ [][NextProfile]_vars

\* ------------------------------------------------------------------------
\* C22: the cursors after a profile switch
\* ------------------------------------------------------------------------
\* C22: after engine_sound_set_profile succeeds, the idle, rev, knock and
\* jake-brake cursors and the effect cursors are all 0, whatever they were
\* before the call.
C22_SwitchResetsAllCursors ==
    [][(ProfSetProfile /\ set_profile_ret' = ESP_OK) =>
          /\ idle_sample_pos' = 0
          /\ rev_sample_pos' = 0
          /\ knock_sample_pos' = 0
          /\ jake_sample_pos' = 0
          /\ mode_switch_sample_pos' = 0
          /\ gear_shift_sound_pos' = 0]_vars

\* ------------------------------------------------------------------------
\* C26: a profile index out of range
\* ------------------------------------------------------------------------
\* C26: selecting a profile never yields an error; an index out of range
\* makes the default profile the active one.
C26_InvalidIndexIsClamped ==
    [][\A profile \in ProfileIndexes :
          EngineSoundSetProfile(profile) =>
             /\ set_profile_ret' = ESP_OK
             /\ profile >= SOUND_PROFILE_COUNT =>
                   current_profile' = SoundProfilesGet(profile)]_vars

\* ------------------------------------------------------------------------
\* Specification of the config load: the sound system is initialised with any
\* blob in storage, the volume level is toggled, the deferred save runs and
\* the sound system is shut down and initialised again
\* ------------------------------------------------------------------------
\* The blobs found in storage: a foreign or the current magic, the layout
\* versions around the current one, and values that differ from the defaults.
Blobs ==
    [magic : {SOUND_CONFIG_MAGIC, "erased"},
     version : {0, 1, 2, SOUND_CONFIG_VERSION, SOUND_CONFIG_VERSION + 1},
     profile : {CAT_3408, TATRA_813, 255},
     master_volume_level1 : {DEFAULT_MASTER_VOLUME_LEVEL1, 31},
     master_volume_level2 : {DEFAULT_MASTER_VOLUME_LEVEL2, 7},
     active_volume_level : {0, 1},
     volume_preset_low : {DEFAULT_VOLUME_PRESET_LOW},
     idle_volume : {DEFAULT_IDLE_VOLUME, 33},
     max_rpm_percentage : {DEFAULT_MAX_RPM_PERCENTAGE},
     acceleration : {DEFAULT_ACCELERATION},
     deceleration : {DEFAULT_DECELERATION},
     rev_switch_point : {DEFAULT_REV_SWITCH_POINT},
     idle_end_point : {DEFAULT_IDLE_END_POINT},
     knock_start_point : {DEFAULT_KNOCK_START_POINT},
     knock_interval : {DEFAULT_KNOCK_INTERVAL, 6}]

\* Before engine_sound_init: the static config, no task, no timer.
InitCfg ==
    /\ InitTuning(TUNING_DEFAULT_COAST_RATE, TUNING_DEFAULT_BRAKE_FORCE)
    /\ InitEngineBase(DEFAULT_ACCELERATION, DEFAULT_DECELERATION)
    /\ now = 0
    /\ current_rpm = IDLE_RPM
    /\ rev_switch_point = DEFAULT_REV_SWITCH_POINT
    /\ idle_end_point = DEFAULT_IDLE_END_POINT
    /\ idle_prop = IDLE_PROPORTION_MAX
    /\ rev_prop = 100 - IDLE_PROPORTION_MAX
    /\ engine_state = OFF
    /\ engine_task_running = FALSE
    /\ nvs_save_timer = FALSE
    /\ nvs_saved \in Blobs

NextCfg ==
    \/ EngineInit
    \/ ToggleVolumeLevel
    \/ NvsTimerCallback
    \/ NvsTick
    \/ EngineDeinit

SpecCfg == InitCfg /\ [][NextCfg]_vars

\* A step that writes the in-memory config to storage with no net change by
\* the user since it was loaded from a valid blob of the current version.
C23_SavesLoaded ==
    /\ nvs_config_dirty /\ ~nvs_config_dirty'
    /\ engine_task_running
    /\ nvs_saved.magic = SOUND_CONFIG_MAGIC
    /\ nvs_saved.version = SOUND_CONFIG_VERSION
    /\ config_source = "loaded"
    /\ active_volume_level = nvs_saved.active_volume_level

\* C23 as stated: saving the config that was loaded from a valid blob of the
\* current version stores a blob equal to the one that was loaded.
C23_RoundTripExact == [][C23_SavesLoaded => nvs_saved' = nvs_saved]_vars

\* C23: saving the config that was loaded from a valid blob x of the current
\* version stores a blob equal to x in every field except knock_interval,
\* which becomes the cylinder count of the profile that x selects.
C23_RoundTripButKnock ==
    [][C23_SavesLoaded =>
         nvs_saved' = [nvs_saved EXCEPT
                         !.knock_interval =
                             CylinderCount(SoundProfilesGet(nvs_saved.profile))]]_vars

\* A loaded blob with a non-default idle volume and a knock interval other
\* than its profile's cylinder count has been saved again.
C23_Witness ==
    /\ config_source = "loaded"
    /\ nvs_writes = 1
    /\ nvs_saved.idle_volume = 33
    /\ nvs_saved.profile = TATRA_813
    /\ nvs_saved.knock_interval = 12
    /\ nvs_saved.master_volume_level2 = 7

\* An initialisation whose load fails or finds a blob with a foreign magic.
C24_LoadUnusable ==
    \/ EngineSoundInit(FALSE)
    \/ EngineInit /\ nvs_saved.magic # SOUND_CONFIG_MAGIC

\* C24: when the load of the stored config fails or the blob's magic does not
\* match, engine_sound_init leaves the config equal to the compiled-in
\* defaults, writes the defaults to storage and returns ESP_OK.
C24_UnusableBlobFallsBackToDefaults ==
    [][C24_LoadUnusable =>
         /\ SoundConfig' = SoundConfigDefaults
         /\ nvs_saved' = SoundConfigDefaults
         /\ init_ret' = ESP_OK
         /\ engine_task_running']_vars

\* The sound system was initialised over a stored blob that differed from
\* the defaults, and runs on the defaults.
C24_Witness ==
    /\ config_source = "defaults"
    /\ engine_task_running
    /\ nvs_saved = SoundConfigDefaults
    /\ SoundConfig = SoundConfigDefaults
    /\ init_ret = ESP_OK

\* An initialisation that loads a blob with the right magic and a version
\* other than the current one.
C25_LoadsOldVersion ==
    /\ EngineSoundInit(TRUE)
    /\ nvs_saved.magic = SOUND_CONFIG_MAGIC
    /\ nvs_saved.version # SOUND_CONFIG_VERSION

\* The stored fields that the migration carries over, at the stored version.
C25_Kept(version) ==
    IF version >= 2
    THEN {"profile", "master_volume_level1", "master_volume_level2",
          "active_volume_level"}
    ELSE IF version = 1 THEN {"profile", "master_volume_level1"}
    ELSE {"profile"}

\* The config selects the stored value in the kept fields, the current magic
\* and version, and the default in every other field but those of free.
C25_Migrated(cfg, old, free) ==
    /\ cfg.magic = SOUND_CONFIG_MAGIC
    /\ cfg.version = SOUND_CONFIG_VERSION
    /\ \A f \in (DOMAIN cfg \ free) \ {"magic", "version"} :
          cfg[f] = IF f \in C25_Kept(old.version) THEN old[f]
                   ELSE SoundConfigDefaults[f]

\* C25 as stated: the migration keeps the profile and the volume fields the
\* stored version has, defaults every other field, and the migrated config is
\* written back.
C25_MigrationKeepsOrDefaults ==
    [][C25_LoadsOldVersion =>
         /\ C25_Migrated(SoundConfig', nvs_saved, {})
         /\ nvs_saved' = SoundConfig']_vars

\* C25: the migration keeps the profile and the volume fields the stored
\* version has and defaults every other field, except that from version 1
\* level 2 is half the old master volume and that, after the migrated config
\* was written back, knock_interval is the selected profile's cylinder count.
C25_MigrationKeepsOrDefaultsButDerived ==
    [][C25_LoadsOldVersion =>
         /\ C25_Migrated(SoundConfig', nvs_saved,
                         {"knock_interval"} \cup
                         IF nvs_saved.version = 1 THEN {"master_volume_level2"}
                         ELSE {})
         /\ nvs_saved.version = 1 =>
              master_volume_level2' = CDiv(nvs_saved.master_volume_level1, 2)
         /\ knock_interval' = CylinderCount(SoundProfilesGet(nvs_saved.profile))
         /\ nvs_saved' = [SoundConfig' EXCEPT
                            !.knock_interval = DEFAULT_KNOCK_INTERVAL]]_vars

\* A version 1 blob with a 12-cylinder profile and non-default values was
\* migrated.
C25_Witness ==
    /\ config_source = "migrated"
    /\ engine_task_running
    /\ config_profile = TATRA_813
    /\ master_volume_level1 = 31
    /\ master_volume_level2 = 15
    /\ knock_interval = 12
    /\ nvs_saved.knock_interval = DEFAULT_KNOCK_INTERVAL
    /\ nvs_saved.version = SOUND_CONFIG_VERSION

\* ------------------------------------------------------------------------
\* Specification of the setters: engine_sound_set_config and
\* engine_sound_set_rpm called at any time with values inside and outside the
\* documented ranges
\* ------------------------------------------------------------------------
\* engine_sound_set_config(new_config): the whole config is replaced.
EngineSoundSetConfig(new_config) ==
    /\ config_magic' = new_config.magic
    /\ config_version' = new_config.version
    /\ config_profile' = new_config.profile
    /\ master_volume_level1' = new_config.master_volume_level1
    /\ master_volume_level2' = new_config.master_volume_level2
    /\ active_volume_level' = new_config.active_volume_level
    /\ volume_preset_low' = new_config.volume_preset_low
    /\ idle_volume' = new_config.idle_volume
    /\ max_rpm_percentage' = new_config.max_rpm_percentage
    /\ acceleration' = new_config.acceleration
    /\ deceleration' = new_config.deceleration
    /\ rev_switch_point' = new_config.rev_switch_point
    /\ idle_end_point' = new_config.idle_end_point
    /\ knock_interval' = new_config.knock_interval
    /\ knock_start_point' = new_config.knock_start_point
    /\ UNCHANGED <<init_ret, config_source, set_profile_ret, idle_prop, rev_prop,
                   curVars, retVars, sfxVars>>
    /\ UNCHANGED <<idle_sample_frac, last_knock_pos, knock_counter,
                   hist_pass_knocks, hist_last_pass>>
    /\ UNCHANGED extVars
    /\ UNCHANGED <<nvs_save_timer, nvs_timer_armed, nvs_timer_remaining,
                   nvs_config_dirty, mode_switch_trigger, nvs_saved, nvs_calls,
                   nvs_writes>>
    /\ UNCHANGED <<dynVars, histVars, mixVars, lifeVars, rpmVars, fadeVars, perfVars,
                   gearVars, shiftVars, updVars, upd_overlap, rcVars, horn_active, now>>

\* The configs handed to engine_sound_set_config: the defaults with values at
\* the ends of and outside the documented ranges.
SetConfigs ==
    {[SoundConfigDefaults EXCEPT !.idle_volume = vol,
                                 !.max_rpm_percentage = pct,
                                 !.acceleration = acc,
                                 !.deceleration = dec] :
        vol \in {0, 200, 255}, pct \in {100, 200, 400, 1000},
        acc \in {0, 1, 9, 10}, dec \in {0, 1, 5, 6}}

\* The RPM values handed to engine_sound_set_rpm.
SetRpms == {0, 99, 100, 250, 400, 401, 65535}

SetSetConfig == \E new_config \in SetConfigs : EngineSoundSetConfig(new_config)

SetSetRpm == \E rpm \in SetRpms : SetRpm(rpm)

NextSet ==
    \/ SetSetConfig
    \/ SetSetRpm

SpecSet == InitLife /\ [][NextSet]_vars

\* C27: engine_sound_set_config and engine_sound_set_rpm store a value
\* outside its range (volumes 0-200, max RPM percentage 200-400, acceleration
\* 1-9, deceleration 1-5, RPM between idle and max) clamped into the range.
C27_SettersClamp ==
    [][/\ \A new_config \in SetConfigs :
            EngineSoundSetConfig(new_config) =>
                /\ idle_volume' = Min(Max(new_config.idle_volume, 0), 200)
                /\ max_rpm_percentage' =
                       Min(Max(new_config.max_rpm_percentage, 200), 400)
                /\ acceleration' = Min(Max(new_config.acceleration, 1), 9)
                /\ deceleration' = Min(Max(new_config.deceleration, 1), 5)
       /\ \A rpm \in SetRpms :
            SetRpm(rpm) =>
                target_rpm' = Min(Max(rpm, IDLE_RPM), MaxRpm(max_rpm_percentage))]_vars

\* ------------------------------------------------------------------------
\* Specification of the lifecycle under memory exhaustion: as SpecLife, and
\* either buffer allocation may fail
\* ------------------------------------------------------------------------
NextAlloc ==
    \/ EngineInit
    \/ EngineDeinit
    \/ StartBegin
    \/ LifeStartPlay
    \/ StartPlayNoMem
    \/ StartEnd
    \/ StartRejected
    \/ TaskNoMem
    \/ EngineStop
    \/ AudioTask
    \/ LifeTick

SpecAlloc == InitLife /\ [][NextAlloc]_vars

\* C28: when the allocation of the start-sound buffer or of the audio task's
\* mix buffer has failed, engine_sound_start returns an error and does not
\* put the engine into Running.
C28_AllocFailureStopsStart ==
    [][/\ (StartEnd /\ (play_ret = ESP_ERR_NO_MEM \/ ~engine_task_running)) =>
            /\ engine_state' # RUNNING
            /\ start_ret' # ESP_OK
       /\ StartRejected =>
            /\ engine_state' # RUNNING
            /\ start_ret' # ESP_OK]_vars

\* One smoothing step from cur toward tgt: by max(rate, D/10), D the
\* distance, and not past tgt.
C30_Toward(cur, tgt) ==
    IF tgt > cur
    THEN Min(cur + Max(acceleration, (tgt - cur) \div 10), tgt)
    ELSE IF tgt < cur
    THEN Max(cur - Max(deceleration, (cur - tgt) \div 10), tgt)
    ELSE cur

\* C30 as stated: every control tick with the engine Running moves
\* current_rpm one smoothing step toward target_rpm (the target before or
\* after the tick's own update of it).
C30_StepOnControlTick ==
    [][(DrivePass /\ engine_state = RUNNING) =>
         current_rpm' \in {C30_Toward(current_rpm, target_rpm),
                           C30_Toward(current_rpm, target_rpm')}]_vars

\* C30: every fourth iteration of the audio task with the engine Running
\* moves current_rpm one smoothing step toward target_rpm, never past it, and
\* limits the result to [IDLE_RPM, IDLE_RPM * max_rpm_percentage / 100]; the
\* other iterations and the control tick leave current_rpm unchanged.
C30_StepOnFourthAudioCycle ==
    [][/\ (AudioTask /\ engine_state = RUNNING /\ engine_enabled) =>
            current_rpm' =
                IF rpm_update_counter = 3
                THEN Min(Max(C30_Toward(current_rpm, target_rpm), IDLE_RPM),
                         (IDLE_RPM * max_rpm_percentage) \div 100)
                ELSE current_rpm
       /\ DrivePass => current_rpm' = current_rpm]_vars

\* An update has just moved current_rpm part of the way to target_rpm.
C30_Witness ==
    /\ engine_state = RUNNING
    /\ rpm_update_counter = 0
    /\ current_rpm > IDLE_RPM
    /\ current_rpm < target_rpm

\* ------------------------------------------------------------------------
\* Specification of the diesel knock: the mixer's sample loop at a constant
\* RPM, over the idle recordings of the Tatra 813 and the Detroit 8V92
\* ------------------------------------------------------------------------
\* calc_sample_increment(rpm): 16.16 fixed point, 1.0 at idle.
CalcSampleIncrement(rpm) == (rpm * 65536) \div IDLE_RPM

\* The samples between two knocks: idle.sample_count / config.knock_interval.
KnockIntervalSamples == IdleSampleCount(current_profile) \div knock_interval

\* should_trigger_knock(rpm) with the idle cursor at sample idle_idx and
\* last_knock_pos at last_pos.
ShouldTriggerKnock(rpm, idle_idx, last_pos) ==
    /\ rpm >= knock_start_point
    /\ idle_idx \div KnockIntervalSamples # last_pos \div KnockIntervalSamples

\* One iteration of the sample loop of mix_engine_samples with no effect
\* playing and the jake brake inactive: the idle and rev cursors advance and
\* wrap, the knock is started at a knock boundary and its one-shot advances.
MixSample ==
    /\ engine_task_running
    /\ engine_state = RUNNING /\ engine_enabled
    /\ mix_pc = "top"
    /\ ~mode_switch_trigger
    /\ LET pos == idle_sample_pos * 65536 + idle_sample_frac
                     + CalcSampleIncrement(current_rpm)
           wraps == pos \div 65536 >= IdleSampleCount(current_profile)
           idx == IF wraps THEN 0 ELSE pos \div 65536
           last == IF wraps THEN 0 ELSE last_knock_pos
           knock == ShouldTriggerKnock(current_rpm, idx, last)
           kpos == IF knock THEN 0 ELSE knock_sample_pos
       IN  /\ idle_sample_pos' = idx
           /\ idle_sample_frac' = IF wraps THEN 0 ELSE pos % 65536
           /\ last_knock_pos' = IF knock THEN idx ELSE last
           /\ knock_counter' = IF knock THEN U8(knock_counter + 1) ELSE knock_counter
           /\ knock_sample_pos' = IF kpos < KnockSamples THEN kpos + 1 ELSE kpos
           /\ hist_pass_knocks' = IF wraps THEN 0
                                  ELSE IF knock THEN hist_pass_knocks + 1
                                  ELSE hist_pass_knocks
           /\ hist_last_pass' = IF wraps THEN hist_pass_knocks ELSE hist_last_pass
    /\ rev_sample_pos' = IF rev_sample_pos + 1 >= RevSamples THEN 0
                         ELSE rev_sample_pos + 1
    /\ UNCHANGED <<knock_start_point, mode_switch_sample_pos>>
    /\ UNCHANGED <<current_profile, jake_sample_pos, mix_pc, mix_idx, mix_profile,
                   mix_buf>>
    /\ UNCHANGED <<nvsVars, sfxVars, xfVars, profVars, blobVars, retVars, extVars>>
    /\ UNCHANGED <<dynVars, histVars, lifeVars, rpmVars, cfgVars, fadeVars, perfVars,
                   gearVars, shiftVars, updVars, upd_overlap, rcVars, horn_active, now>>

\* The RPM values the mixer runs at, below and above the knock start point.
KnockRpms == {100, 149, 150, 175, 200, 250, 299}

\* The engine is Running at a constant RPM on one of the two profiles, as
\* engine_sound_set_profile leaves it.
InitKnock ==
    /\ InitTuning(TUNING_DEFAULT_COAST_RATE, TUNING_DEFAULT_BRAKE_FORCE)
    /\ InitEngineBase(DEFAULT_ACCELERATION, DEFAULT_DECELERATION)
    /\ now = 0
    /\ engine_state = RUNNING
    /\ engine_task_running = TRUE
    /\ nvs_save_timer = TRUE
    /\ current_rpm \in KnockRpms
    /\ rev_switch_point = DEFAULT_REV_SWITCH_POINT
    /\ idle_end_point = DEFAULT_IDLE_END_POINT
    /\ idle_prop = IDLE_PROPORTION_MAX
    /\ rev_prop = 100 - IDLE_PROPORTION_MAX
    /\ nvs_saved = SoundConfig

KnockSetProfile == \E profile \in {TATRA_813, DETROIT_8V92} : SetProfile(profile)

\* The mixer runs on the two recordings that are kept longer than a knock
\* interval.
KnockMixSample ==
    /\ current_profile \in {TATRA_813, DETROIT_8V92}
    /\ MixSample

NextKnock ==
    \/ KnockSetProfile
    \/ KnockMixSample

SpecKnock == InitKnock /\ [][NextKnock]_vars

\* C31: with current_rpm at or above the knock start point and the pitch
\* increment smaller than one knock interval, every complete pass of the idle
\* cursor through the idle buffer starts the knock exactly knock_interval
\* times.
C31_KnocksPerPass ==
    (/\ hist_last_pass # -1
     /\ current_rpm >= knock_start_point
     /\ CalcSampleIncrement(current_rpm) < KnockIntervalSamples * 65536)
        => hist_last_pass = knock_interval

\* ---------------------------------------------------------------------
\* C35: when engine_sound_stop() or engine_sound_deinit() has taken the
\* engine out of Starting while engine_sound_start() was playing the start
\* sound, the return of engine_sound_start() does not put the engine into
\* Running.
C35_StartReturns == start_pc = "playing" /\ start_pc' = "idle"

C35_AbortedStartNotRunning ==
    [][(C35_StartReturns /\ engine_state # STARTING)
          => engine_state' # RUNNING]_vars

\* ---------------------------------------------------------------------
\* web_server.c, sound_post_handler: the handler of a POST of the sound
\* settings. It runs in the HTTP server's task, so the control loop can run
\* between its statements; it is cut where it has taken its copy of the
\* config and where it has applied it.

\* The request bodies: the keys "profile", "masterVolumeLevel1",
\* "activeVolumeLevel" and "enabled", each absent (-1) or present.
SoundPostBodies ==
    [profile : {-1, TATRA_813},
     masterVolumeLevel1 : {-1, WebVolume},
     activeVolumeLevel : {-1, 1},
     enabled : {-1, 0}]

\* memcpy(&cfg, engine_sound_get_config(), ...)
SoundPostCopy ==
    /\ web_pc = "idle"
    /\ engine_task_running
    /\ web_cfg' = SoundConfig
    /\ web_pc' = "copied"
    /\ UNCHANGED <<dynVars, histVars, lifeVars, rpmVars, cfgVars, fadeVars, perfVars,
                   gearVars, shiftVars, updVars, rcVars, mixVars, nvsVars, sfxVars,
                   xfVars, curVars, profVars, blobVars, retVars, knockVars, menuVars,
                   switchVars, menuHistVars, horn_active, upd_overlap, now>>

\* The fields of the body written into cfg, cfg.magic and cfg.version set.
SoundPostParse(cfg, body) ==
    [cfg EXCEPT
       !.profile = IF body.profile >= 0 /\ body.profile < SOUND_PROFILE_COUNT
                   THEN body.profile ELSE @,
       !.master_volume_level1 = IF body.masterVolumeLevel1 # -1
                                THEN body.masterVolumeLevel1 ELSE @,
       !.active_volume_level = IF body.activeVolumeLevel # -1
                               THEN body.activeVolumeLevel ELSE @,
       !.magic = SOUND_CONFIG_MAGIC,
       !.version = SOUND_CONFIG_VERSION]

\* The body parsed: engine_sound_set_profile() for a valid "profile",
\* engine_sound_enable() for "enabled", then engine_sound_set_config(&cfg).
SoundPostApply(body) ==
    LET cfg == SoundPostParse(web_cfg, body)
        switches == body.profile >= 0 /\ body.profile < SOUND_PROFILE_COUNT
    IN  /\ web_pc = "copied"
        /\ current_profile' = IF switches THEN SoundProfilesGet(body.profile)
                              ELSE current_profile
        /\ IF switches
           THEN /\ idle_sample_pos' = 0
                /\ rev_sample_pos' = 0
                /\ knock_sample_pos' = 0
                /\ jake_sample_pos' = 0
                /\ idle_sample_frac' = 0
                /\ last_knock_pos' = 0
                /\ knock_counter' = 0
                /\ hist_pass_knocks' = 0
                /\ set_profile_ret' = ESP_OK
           ELSE UNCHANGED <<idle_sample_pos, rev_sample_pos, knock_sample_pos,
                            jake_sample_pos, idle_sample_frac, last_knock_pos,
                            knock_counter, hist_pass_knocks, set_profile_ret>>
        /\ engine_enabled' = IF body.enabled = -1 THEN engine_enabled
                             ELSE body.enabled = 1
        /\ IF body.enabled = 0 /\ engine_state = RUNNING
           THEN StopEffect
           ELSE UNCHANGED <<engine_state, shutdown_attenuation, shutdown_speed_pct>>
        /\ config_magic' = cfg.magic
        /\ config_version' = cfg.version
        /\ config_profile' = cfg.profile
        /\ master_volume_level1' = cfg.master_volume_level1
        /\ master_volume_level2' = cfg.master_volume_level2
        /\ active_volume_level' = cfg.active_volume_level
        /\ volume_preset_low' = cfg.volume_preset_low
        /\ idle_volume' = cfg.idle_volume
        /\ max_rpm_percentage' = cfg.max_rpm_percentage
        /\ acceleration' = cfg.acceleration
        /\ deceleration' = cfg.deceleration
        /\ rev_switch_point' = cfg.rev_switch_point
        /\ idle_end_point' = cfg.idle_end_point
        /\ knock_interval' = cfg.knock_interval
        /\ knock_start_point' = cfg.knock_start_point
        /\ web_cfg' = cfg
        /\ web_pc' = "applied"
        /\ UNCHANGED <<dynVars, histVars, engine_task_running, start_pc, start_bufs, rpmVars,
                   last_shutdown_update, perfVars, gearVars, shiftVars, updVars, rcVars,
                   mix_pc, mix_idx, mix_profile, mix_buf, nvs_save_timer,
                   nvs_timer_armed, nvs_timer_remaining, nvs_config_dirty,
                   mode_switch_trigger, nvs_saved, nvs_calls, nvs_writes, sfxVars,
                   idle_prop, rev_prop, mode_switch_sample_pos, init_ret, config_source,
                   retVars, hist_last_pass, menuVars, switchVars, menuHistVars,
                   horn_active, upd_overlap, now>>

\* nvs_save_sound_config(&cfg, ...): the handler's copy is what is stored.
SoundPostSave ==
    /\ web_pc = "applied"
    /\ nvs_saved' = web_cfg
    /\ nvs_calls' = 0
    /\ nvs_writes' = Min(nvs_writes + 1, MaxCalls)
    /\ web_cfg' = SoundConfigDefaults
    /\ web_pc' = "idle"
    /\ UNCHANGED <<dynVars, histVars, lifeVars, rpmVars, cfgVars, fadeVars, perfVars,
                   gearVars, shiftVars, updVars, rcVars, mixVars, nvs_save_timer,
                   nvs_timer_armed, nvs_timer_remaining, nvs_config_dirty,
                   active_volume_level, master_volume_level1, master_volume_level2,
                   mode_switch_trigger, sfxVars, xfVars, curVars, profVars, blobVars,
                   retVars, knockVars, menuVars, switchVars, menuHistVars, horn_active,
                   upd_overlap, now>>

WebPostApply == \E body \in SoundPostBodies : SoundPostApply(body)

WebSetProfile == \E p \in {CAT_3408, TATRA_813} : SetProfile(p)

WebSetVolumePreset == SetVolumePreset(0)

NextWeb ==
    \/ SoundPostCopy
    \/ WebPostApply
    \/ SoundPostSave
    \/ WebSetProfile
    \/ ToggleVolumeLevel
    \/ WebSetVolumePreset

SpecWeb == InitLife /\ [][NextWeb]_vars

\* ---------------------------------------------------------------------
\* C39: whenever no config replacement is under way, config.profile is the
\* profile whose samples are played and config.knock_interval is that
\* profile's cylinder count.
C39_ProfileAndKnockMatch ==
    web_pc = "idle"
        => /\ current_profile = SoundProfilesGet(config_profile)
           /\ knock_interval = CylinderCount(current_profile)
           /\ knock_interval # 0

\* ---------------------------------------------------------------------
\* C40: a web update whose body names neither volume level leaves the
\* active volume level and the master volume levels as the control loop
\* last set them, whatever the control loop did since the handler took its
\* copy of the config.
C40_ControlLoopVolumeKept ==
    [][\A body \in SoundPostBodies :
          (SoundPostApply(body) /\ body.activeVolumeLevel = -1
                                /\ body.masterVolumeLevel1 = -1)
              => /\ active_volume_level' = active_volume_level
                 /\ master_volume_level1' = master_volume_level1
                 /\ master_volume_level2' = master_volume_level2]_vars

\* ---------------------------------------------------------------------
\* menu.c and mode_switch.c: the settings menu on AUX2 / AUX1 and the
\* steering-mode button on AUX2, as process_control_loop() of main.c runs
\* them in one pass. The functions are operators on a record m of the
\* variables they read and write; every timestamp read in one pass is now.
MENU_LONGPRESS_MS == 1500
MENU_TIMEOUT_MS == 10000
MENU_DEBOUNCE_MS == 50
DEBOUNCE_MS == 50
MULTI_PRESS_WINDOW == 400
PRESS_TIMEOUT == 500
MENU_CAT_VOLUME == 0
MENU_CAT_PROFILE == 1
MENU_CAT_HORN == 2
MENU_CAT_WIFI == 3
MENU_CAT_COUNT == 4
MENU_VOL_COUNT == 3
MENU_PROFILE_COUNT == 3
MENU_HORN_COUNT == 7
MENU_WIFI_COUNT == 2
\* The clock of the menu: the step of time between two passes that are not
\* back to back, and the time since boot at which the model starts.
MenuStep == 1500
MenuMaxNow == 12000
\* The presses counted in one sequence (three or more are treated alike).
MaxPresses == 3

MenuRegs ==
    [menu_state |-> menu_state,
     category_index |-> category_index,
     option_index |-> option_index,
     last_activity_time |-> last_activity_time,
     aux2_was_pressed |-> aux2_was_pressed,
     aux2_press_start |-> aux2_press_start,
     aux2_longpress_handled |-> aux2_longpress_handled,
     aux1_was_pressed |-> aux1_was_pressed,
     btn_state |-> btn_state,
     last_press_time |-> last_press_time,
     last_release_time |-> last_release_time,
     press_count |-> press_count,
     current_mode |-> current_mode,
     last_normal_mode |-> last_normal_mode,
     longpress_handled |-> longpress_handled,
     steering_enabled |-> steering_enabled,
     app_state |-> app_state,
     engine_enabled |-> engine_enabled,
     engine_state |-> engine_state,
     shutdown_attenuation |-> shutdown_attenuation,
     shutdown_speed_pct |-> shutdown_speed_pct,
     horn_active |-> horn_active,
     mode_switch_trigger |-> mode_switch_trigger,
     mode_switch_sample_pos |-> mode_switch_sample_pos,
     hist_exit_press |-> hist_exit_press,
     hist_menu_press |-> hist_menu_press,
     hist_running_at_entry |-> hist_running_at_entry,
     hist_menu_was_active |-> hist_menu_was_active,
     applied |-> <<-1, -1>>,
     rising |-> FALSE]

\* mode_switch_set_enabled()
ModeSwitchSetEnabled(m, enabled) ==
    IF m.steering_enabled = enabled THEN m
    ELSE IF enabled THEN [m EXCEPT !.steering_enabled = TRUE]
    ELSE [m EXCEPT !.steering_enabled = FALSE,
                   !.btn_state = BTN_STATE_IDLE,
                   !.press_count = 0,
                   !.longpress_handled = FALSE,
                   !.hist_menu_press = FALSE]

\* engine_sound_enable(), with engine_sound_stop() for a Running engine
MenuEngineSoundEnable(m, enable) ==
    IF ~enable /\ m.engine_state = RUNNING
    THEN [m EXCEPT !.engine_enabled = enable,
                   !.shutdown_attenuation = 1,
                   !.shutdown_speed_pct = 100,
                   !.engine_state = STOPPING]
    ELSE [m EXCEPT !.engine_enabled = enable]

\* enter_menu()
EnterMenu(m) ==
    MenuEngineSoundEnable(
        ModeSwitchSetEnabled(
            [m EXCEPT !.menu_state = MENU_STATE_LEVEL1,
                      !.category_index = 0,
                      !.option_index = 0,
                      !.last_activity_time = now,
                      !.aux2_longpress_handled = TRUE,
                      !.aux2_was_pressed = TRUE,
                      !.hist_running_at_entry = (m.engine_state = RUNNING),
                      !.hist_menu_was_active = TRUE],
            FALSE),
        FALSE)

\* exit_menu()
ExitMenu(m, cancelled) ==
    IF m.menu_state = MENU_STATE_INACTIVE THEN m
    ELSE MenuEngineSoundEnable(
             ModeSwitchSetEnabled(
                 [m EXCEPT !.menu_state = MENU_STATE_INACTIVE,
                           !.category_index = 0,
                           !.option_index = 0,
                           !.hist_running_at_entry = FALSE],
                 TRUE),
             TRUE)

\* menu_force_exit()
MenuForceExit(m) ==
    IF m.menu_state # MENU_STATE_INACTIVE
    THEN ModeSwitchSetEnabled(
             [m EXCEPT !.menu_state = MENU_STATE_INACTIVE,
                       !.category_index = 0,
                       !.option_index = 0,
                       !.hist_running_at_entry = FALSE,
                       !.hist_menu_press = FALSE],
             TRUE)
    ELSE m

\* get_option_count()
GetOptionCount(cat) ==
    CASE cat = MENU_CAT_VOLUME -> MENU_VOL_COUNT
      [] cat = MENU_CAT_PROFILE -> MENU_PROFILE_COUNT
      [] cat = MENU_CAT_HORN -> MENU_HORN_COUNT
      [] OTHER -> MENU_WIFI_COUNT

\* engine_sound_get_current_volume_preset_index()
CurrentVolumePresetIndex ==
    LET current == IF active_volume_level = 0 THEN master_volume_level1
                   ELSE master_volume_level2
        diff_low == Abs(current - VolumePreset(0))
        diff_med == Abs(current - VolumePreset(1))
        diff_high == Abs(current - VolumePreset(2))
    IN  IF diff_low <= diff_med /\ diff_low <= diff_high THEN 0
        ELSE IF diff_high <= diff_med THEN 2
        ELSE 1

\* get_current_option(); the horn type and the WiFi state are settings
\* outside this model, their option is other.
GetCurrentOption(cat, other) ==
    CASE cat = MENU_CAT_VOLUME -> CurrentVolumePresetIndex
      [] cat = MENU_CAT_PROFILE -> config_profile
      [] OTHER -> other

\* menu_update()
MenuUpdate(m, aux2_pressed) ==
    IF m.menu_state = MENU_STATE_INACTIVE
    THEN [m EXCEPT !.aux2_was_pressed = aux2_pressed]
    ELSE IF now - m.last_activity_time >= MENU_TIMEOUT_MS
    THEN [ExitMenu(m, TRUE) EXCEPT !.aux2_was_pressed = aux2_pressed]
    ELSE
    LET aux2_rising_edge == aux2_pressed /\ ~m.aux2_was_pressed
        aux2_falling_edge == ~aux2_pressed /\ m.aux2_was_pressed
        m1 == IF aux2_rising_edge
              THEN [m EXCEPT !.aux2_press_start = now,
                             !.aux2_longpress_handled = FALSE]
              ELSE m
        held == [m1 EXCEPT !.aux2_longpress_handled = TRUE,
                           !.last_activity_time = now]
        m2 == IF /\ aux2_pressed
                 /\ ~m1.aux2_longpress_handled
                 /\ now - m1.aux2_press_start >= MENU_LONGPRESS_MS
              THEN IF m1.menu_state = MENU_STATE_LEVEL1
                   THEN [ExitMenu(held, TRUE) EXCEPT !.hist_exit_press = TRUE]
                   ELSE [held EXCEPT !.menu_state = MENU_STATE_LEVEL1]
              ELSE m1
        m3 == IF /\ aux2_falling_edge
                 /\ ~m2.aux2_longpress_handled
                 /\ now - m2.aux2_press_start >= MENU_DEBOUNCE_MS
              THEN IF m2.menu_state = MENU_STATE_LEVEL1
                   THEN [m2 EXCEPT !.last_activity_time = now,
                                   !.category_index = (@ + 1) % MENU_CAT_COUNT]
                   ELSE [m2 EXCEPT !.last_activity_time = now,
                                   !.option_index =
                                       (@ + 1) % GetOptionCount(m2.category_index)]
              ELSE m2
    IN  [m3 EXCEPT !.aux2_was_pressed = aux2_pressed]

\* menu_handle_confirm(); apply_option() is recorded in m.applied and has
\* its effect on the sound config in ProcessControlLoop.
MenuHandleConfirm(m, aux1_pressed, other) ==
    IF m.menu_state = MENU_STATE_INACTIVE
    THEN [m EXCEPT !.aux1_was_pressed = aux1_pressed]
    ELSE
    LET aux1_rising_edge == aux1_pressed /\ ~m.aux1_was_pressed
        m1 == IF ~aux1_rising_edge THEN m
              ELSE IF m.menu_state = MENU_STATE_LEVEL1
              THEN [m EXCEPT !.last_activity_time = now,
                             !.menu_state = MENU_STATE_LEVEL2,
                             !.option_index =
                                 GetCurrentOption(m.category_index, other)]
              ELSE ExitMenu([m EXCEPT !.last_activity_time = now,
                                      !.applied = <<m.category_index,
                                                    m.option_index>>],
                            FALSE)
    IN  [m1 EXCEPT !.aux1_was_pressed = aux1_pressed]

\* is_special_mode()
IsSpecialMode(mode) == mode = STEER_MODE_CRAB \/ mode = STEER_MODE_REAR

\* execute_mode_change(), with engine_sound_play_mode_switch()
ExecuteModeChange(m, presses) ==
    LET new_mode ==
            IF IsSpecialMode(m.current_mode)
            THEN CASE presses = 1 -> m.last_normal_mode
                   [] presses = 2 -> STEER_MODE_CRAB
                   [] presses >= 3 -> STEER_MODE_REAR
                   [] OTHER -> m.current_mode
            ELSE CASE presses = 1 ->
                          IF m.current_mode = STEER_MODE_FRONT
                          THEN STEER_MODE_ALL_AXLE ELSE STEER_MODE_FRONT
                   [] presses = 2 -> STEER_MODE_CRAB
                   [] presses >= 3 -> STEER_MODE_REAR
                   [] OTHER -> m.current_mode
    IN  IF new_mode = m.current_mode THEN m
        ELSE [m EXCEPT
                !.last_normal_mode = IF IsSpecialMode(new_mode) THEN @ ELSE new_mode,
                !.current_mode = new_mode,
                !.mode_switch_trigger = (m.engine_state = RUNNING \/ @),
                !.mode_switch_sample_pos = IF m.engine_state = RUNNING THEN 0 ELSE @]

\* on_longpress_callback()
OnLongpressCallback(m) ==
    IF m.menu_state = MENU_STATE_INACTIVE THEN EnterMenu(m) ELSE m

\* mode_switch_update()
ModeSwitchUpdate(m, button_pressed) ==
    LET in_menu == m.rising /\ m.menu_state # MENU_STATE_INACTIVE
        committed == IF m.steering_enabled THEN ExecuteModeChange(m, m.press_count)
                     ELSE m
    IN
    CASE m.btn_state = BTN_STATE_IDLE ->
            IF button_pressed
            THEN [m EXCEPT !.btn_state = BTN_STATE_PRESSED,
                           !.last_press_time = now,
                           !.press_count = 1,
                           !.longpress_handled = FALSE,
                           !.hist_menu_press = in_menu]
            ELSE m
      [] m.btn_state = BTN_STATE_PRESSED ->
            IF button_pressed
            THEN IF /\ ~m.longpress_handled
                    /\ now - m.last_press_time >= MENU_LONGPRESS_MS
                 THEN [OnLongpressCallback([m EXCEPT !.longpress_handled = TRUE])
                          EXCEPT !.press_count = 0,
                                 !.btn_state = BTN_STATE_IDLE,
                                 !.hist_menu_press = FALSE]
                 ELSE m
            ELSE IF now - m.last_press_time >= DEBOUNCE_MS
                 THEN [m EXCEPT !.btn_state = BTN_STATE_WAIT_COMMIT,
                                !.last_release_time = now]
                 ELSE m
      [] OTHER ->
            IF button_pressed
            THEN IF now - m.last_release_time <= MULTI_PRESS_WINDOW
                 THEN [m EXCEPT !.press_count = Min(@ + 1, MaxPresses),
                                !.btn_state = BTN_STATE_PRESSED,
                                !.last_press_time = now,
                                !.longpress_handled = FALSE,
                                !.hist_menu_press = @ \/ in_menu]
                 ELSE [committed EXCEPT !.press_count = 1,
                                        !.btn_state = BTN_STATE_PRESSED,
                                        !.last_press_time = now,
                                        !.longpress_handled = FALSE,
                                        !.hist_menu_press = in_menu]
            ELSE IF now - m.last_release_time >= PRESS_TIMEOUT
                 THEN [committed EXCEPT !.press_count = 0,
                                        !.btn_state = BTN_STATE_IDLE,
                                        !.hist_menu_press = FALSE]
                 ELSE m

\* A timestamp after step more ms: the clock stands at MenuMaxNow and the
\* timestamps move back instead; a timestamp is not told apart from one as
\* old as horizon, the longest time it is compared with.
AgeStamp(stamp, step, horizon) ==
    IF step = 0 THEN stamp ELSE Max(stamp - step, MenuMaxNow - horizon)

\* The registers when step ms have passed since the last pass.
\* last_activity_time, which only an active menu reads and which
\* enter_menu() sets, is as old as the timeout while the menu is inactive.
MenuRegsAfter(step) ==
    [MenuRegs EXCEPT
        !.last_activity_time =
            IF step # 0 /\ menu_state = MENU_STATE_INACTIVE
            THEN MenuMaxNow - MENU_TIMEOUT_MS
            ELSE AgeStamp(@, step, MENU_TIMEOUT_MS),
        !.aux2_press_start = AgeStamp(@, step, MENU_LONGPRESS_MS),
        !.last_press_time = AgeStamp(@, step, MENU_LONGPRESS_MS),
        !.last_release_time = AgeStamp(@, step, MENU_LONGPRESS_MS)]

\* The registers after one pass of process_control_loop(), step ms after
\* the last one: menu_update(), menu_handle_confirm() or the horn, the
\* signal-loss branch with menu_force_exit(), and mode_switch_update().
ControlLoopRegs(step, aux1_pressed, aux2_pressed, signal_lost, other) ==
    LET m0 == [MenuRegsAfter(step) EXCEPT
                  !.rising = aux2_pressed /\ ~aux2_was_pressed,
                  !.hist_exit_press = @ /\ ~(aux2_pressed /\ ~aux2_was_pressed)]
        m1 == MenuUpdate(m0, aux2_pressed)
        m2 == IF m1.menu_state # MENU_STATE_INACTIVE
              THEN [MenuHandleConfirm(m1, aux1_pressed, other)
                       EXCEPT !.horn_active = FALSE]
              ELSE [m1 EXCEPT !.horn_active = aux1_pressed]
    IN  IF signal_lost
        THEN IF m2.app_state # APP_STATE_FAILSAFE
             THEN MenuForceExit([m2 EXCEPT !.app_state = APP_STATE_FAILSAFE])
             ELSE m2
        ELSE ModeSwitchUpdate([m2 EXCEPT !.app_state = APP_STATE_RUNNING],
                              aux2_pressed)

\* The category in which the driver confirms an option, and the option
\* that the horn type and the WiFi state select on entering their category.
\* A receiver that has lost the signal reports no button as pressed.
MenuConfirmCats == {MENU_CAT_WIFI}
MenuOthers == {0}

\* The main loop of app_main() for the buttons: step ms pass, in which the
\* deferred save of the sound config runs if its timer expires, then one
\* pass of process_control_loop() with apply_option() of a confirmed option
\* of a category in MenuConfirmCats.
ProcessControlLoop(step, aux1_pressed, aux2_pressed, signal_lost, other) ==
    \E m \in {ControlLoopRegs(step, aux1_pressed, aux2_pressed, signal_lost,
                              other)} :
    LET cat == m.applied[1]
        opt == m.applied[2]
        volume == cat = MENU_CAT_VOLUME
        profile == cat = MENU_CAT_PROFILE /\ opt < SOUND_PROFILE_COUNT
        horn == cat = MENU_CAT_HORN
        fires == nvs_timer_armed /\ nvs_timer_remaining <= step
        saves == fires /\ nvs_config_dirty
        calls == IF saves THEN 0 ELSE nvs_calls
        writes == IF saves THEN nvs_writes + 1 ELSE nvs_writes
    IN  /\ update_pc = "idle"
        /\ start_pc = "idle"
        /\ engine_task_running
        /\ now = MenuMaxNow
        /\ cat \in {-1} \cup MenuConfirmCats
        /\ menu_state' = m.menu_state
        /\ category_index' = m.category_index
        /\ option_index' = m.option_index
        /\ last_activity_time' = m.last_activity_time
        /\ aux2_was_pressed' = m.aux2_was_pressed
        /\ aux2_press_start' = m.aux2_press_start
        /\ aux2_longpress_handled' = m.aux2_longpress_handled
        /\ aux1_was_pressed' = m.aux1_was_pressed
        /\ btn_state' = m.btn_state
        /\ last_press_time' = m.last_press_time
        /\ last_release_time' = m.last_release_time
        /\ press_count' = m.press_count
        /\ current_mode' = m.current_mode
        /\ last_normal_mode' = m.last_normal_mode
        /\ longpress_handled' = m.longpress_handled
        /\ steering_enabled' = m.steering_enabled
        /\ app_state' = m.app_state
        /\ engine_enabled' = m.engine_enabled
        /\ engine_state' = m.engine_state
        /\ shutdown_attenuation' = m.shutdown_attenuation
        /\ shutdown_speed_pct' = m.shutdown_speed_pct
        /\ horn_active' = m.horn_active
        /\ mode_switch_trigger' = m.mode_switch_trigger
        /\ mode_switch_sample_pos' = m.mode_switch_sample_pos
        /\ hist_exit_press' = m.hist_exit_press
        /\ hist_menu_press' = m.hist_menu_press
        /\ hist_running_at_entry' = m.hist_running_at_entry
        /\ hist_menu_was_active' = m.hist_menu_was_active
        /\ master_volume_level1' = IF volume THEN VolumePreset(opt)
                                   ELSE master_volume_level1
        /\ master_volume_level2' = IF volume THEN VolumePreset(opt)
                                   ELSE master_volume_level2
        /\ nvs_config_dirty' = (volume \/ (nvs_config_dirty /\ ~saves))
        /\ nvs_timer_armed' = ((volume /\ nvs_save_timer)
                                  \/ (nvs_timer_armed /\ ~fires))
        /\ nvs_timer_remaining' =
               IF volume /\ nvs_save_timer THEN NVS_DEBOUNCE_MS
               ELSE IF fires THEN 0
               ELSE IF nvs_timer_armed THEN nvs_timer_remaining - step
               ELSE nvs_timer_remaining
        /\ nvs_calls' = IF volume THEN Min(calls + 1, MaxCalls)
                        ELSE IF profile \/ horn THEN 0 ELSE calls
        /\ nvs_writes' = IF volume THEN 0
                         ELSE IF profile \/ horn THEN Min(writes + 1, MaxCalls)
                         ELSE writes
        /\ nvs_saved' = IF profile
                        THEN [SoundConfig EXCEPT
                                 !.profile = opt,
                                 !.knock_interval =
                                     CylinderCount(SoundProfilesGet(opt))]
                        ELSE IF horn \/ saves THEN SoundConfig
                        ELSE nvs_saved
        /\ config_profile' = IF profile THEN opt ELSE config_profile
        /\ current_profile' = IF profile THEN SoundProfilesGet(opt)
                              ELSE current_profile
        /\ knock_interval' = IF profile THEN CylinderCount(SoundProfilesGet(opt))
                             ELSE knock_interval
        /\ IF profile
           THEN /\ idle_sample_pos' = 0
                /\ rev_sample_pos' = 0
                /\ knock_sample_pos' = 0
                /\ jake_sample_pos' = 0
                /\ idle_sample_frac' = 0
                /\ last_knock_pos' = 0
                /\ knock_counter' = 0
                /\ hist_pass_knocks' = 0
                /\ set_profile_ret' = ESP_OK
           ELSE UNCHANGED <<idle_sample_pos, rev_sample_pos, knock_sample_pos,
                            jake_sample_pos, idle_sample_frac, last_knock_pos,
                            knock_counter, hist_pass_knocks, set_profile_ret>>
        /\ last_shutdown_update' = Max(last_shutdown_update - step, 0)
        /\ last_upshift_time' = Max(last_upshift_time - step, 0)
        /\ last_downshift_time' = Max(last_downshift_time - step, 0)
        /\ gear_shift_start_time' = Max(gear_shift_start_time - step, 0)
        /\ wastegate_lockout_time' = Max(wastegate_lockout_time - step, 0)
        /\ hist_wastegate_age' = Min(hist_wastegate_age + step, MaxNow)
        /\ UNCHANGED <<dynVars, histVars, engine_task_running, start_pc, start_bufs, rpmVars,
                       cfgVars, perfVars, current_gear, rpm_settled_after_upshift,
                       gear_shift_trigger, gear_shift_attenuation, gear_shift_sound_trigger,
                       gear_shift_sound_pos, updVars, rcVars, mix_pc, mix_idx, mix_profile,
                       mix_buf, nvs_save_timer, active_volume_level, motor_cutoff,
                       peak_vehicle_speed, was_motor_stopped, air_brake_trigger,
                       wastegate_trigger, prev_throttle_for_wastegate, hist_speed_exceeded,
                       hist_direct_fast, xfVars, blobVars, retVars, knock_start_point,
                       hist_last_pass, webVars, upd_overlap, now>>

\* A pass of the control loop step ms after the last one, on any inputs.
MenuPass(step) ==
    \E aux1_pressed, aux2_pressed, signal_lost \in BOOLEAN : \E other \in MenuOthers :
        /\ signal_lost => (~aux1_pressed /\ ~aux2_pressed)
        /\ ProcessControlLoop(step, aux1_pressed, aux2_pressed, signal_lost, other)

\* A pass back to back with the last one, and a pass MenuStep ms after it.
MenuPassNow == MenuPass(0)
MenuPassLater == MenuPass(MenuStep)

NextMenu == MenuPassNow \/ MenuPassLater

\* The controller MenuMaxNow ms after boot, no button pressed so far, the
\* engine Off or started.
InitMenu ==
    /\ InitTuning(TUNING_DEFAULT_COAST_RATE, TUNING_DEFAULT_BRAKE_FORCE)
    /\ InitEngineBase(DEFAULT_ACCELERATION, DEFAULT_DECELERATION)
    /\ now = MenuMaxNow
    /\ engine_state \in {OFF, RUNNING}
    /\ engine_task_running = TRUE
    /\ nvs_save_timer = TRUE
    /\ current_rpm = IDLE_RPM
    /\ rev_switch_point = DEFAULT_REV_SWITCH_POINT
    /\ idle_end_point = DEFAULT_IDLE_END_POINT
    /\ idle_prop = IDLE_PROPORTION_MAX
    /\ rev_prop = 100 - IDLE_PROPORTION_MAX
    /\ nvs_saved = SoundConfig

SpecMenu == InitMenu /\ [][NextMenu]_vars

\* ---------------------------------------------------------------------
\* C32: once a long press of AUX2 has left Level 1, the menu is inactive
\* for as long as that press lasts and after its release, until AUX2 is
\* pressed again.
C32_LongPressExitStays ==
    hist_exit_press => menu_state = MENU_STATE_INACTIVE

\* ---------------------------------------------------------------------
\* C33: the steering mode does not change on the commit of a press
\* sequence that holds an AUX2 press begun while the menu was active,
\* whether the menu is still active then or has exited by confirm, cancel
\* or timeout.
C33_MenuPressesKeepMode ==
    [][hist_menu_press => current_mode' = current_mode]_vars

\* ---------------------------------------------------------------------
\* C36: when the menu goes inactive, an engine that was Running when the
\* menu was entered is Running.
C36_RunningAgainAfterMenu ==
    [][(/\ menu_state # MENU_STATE_INACTIVE
        /\ menu_state' = MENU_STATE_INACTIVE
        /\ hist_running_at_entry)
          => engine_state' = RUNNING]_vars

\* ---------------------------------------------------------------------
\* C37: whenever the menu is inactive after having been active, engine
\* sound output and steering-mode changes are both enabled.
C37_InactiveMenuReenables ==
    (hist_menu_was_active /\ menu_state = MENU_STATE_INACTIVE)
        => (engine_enabled /\ steering_enabled)

\* ------------------------------------------------------------------------
\* Specification of the throttle modes: the AUX3 switch selects direct,
\* neutral or realistic mode on any pass, the signal can be lost
\* ------------------------------------------------------------------------
NEUTRAL == "NEUTRAL"

\* Stick positions of the mode runs: full reverse, released, full.
ModeThrottles == {-600, 0, 600}

\* The driver moves the stick or the mode switch; in realistic mode once the
\* vehicle has settled at the speed asked for or has come to rest.
ModesRc ==
    /\ \/ rc_mode # REALISTIC
       \/ simulated_velocity = rc_throttle
       \/ simulated_velocity = 0
    /\ \E mode \in {DIRECT, NEUTRAL, REALISTIC} : \E throttle \in ModeThrottles :
           StickMove(mode, throttle)

NextModes ==
    \/ Aux4Start
    \/ LifeStartPlay
    \/ StartEnd
    \/ ModesRc
    \/ FxPass
    \/ MixAirBrakeEnd
    \/ SignalLost

SpecModes == InitDrive /\ [][NextModes]_vars

\* ------------------------------------------------------------------------
\* C34: in direct or neutral throttle mode, where the throttle is handed to
\* engine_sound_update as the velocity, a pass that finds the vehicle
\* stopped after a pass that found its speed above the peak-speed threshold
\* (100) arms the air brake, as in realistic mode.
\* engine_sound_update takes motor_stopped from tuning_is_motor_stopped(),
\* which reads the simulated velocity; tuning_calc_esc_pulse runs the
\* simulator in realistic mode only, so that in the other modes
\* motor_stopped never changes and the air brake is never armed.
\* ------------------------------------------------------------------------
C34_DirectStopArmsAirBrake ==
    [][(/\ FxPass
        /\ engine_state = RUNNING
        /\ rc_mode # REALISTIC
        /\ hist_direct_fast
        /\ rc_throttle = 0
        /\ ~air_brake_trigger)
          => air_brake_trigger']_vars

\* ------------------------------------------------------------------------
\* C38: the braking flag that engine_sound_update reads on a pass is true
\* only if on that pass the throttle opposes the vehicle's motion, or its
\* last direction while stopped; it is false on every pass in direct or
\* neutral mode and on the first pass after a signal-loss reset.
\* currently_braking is written by tuning_apply_realistic_throttle only:
\* a pass in direct or neutral mode reads what the last realistic pass left.
\* ------------------------------------------------------------------------
\* The throttle of this pass opposes the motion, in realistic mode.
C38_Opposes ==
    LET t == EscThrottle(rc_throttle)
    IN  /\ rc_mode = REALISTIC
        /\ \/ t > 0 /\ simulated_velocity < 0
           \/ t < 0 /\ simulated_velocity > 0
           \/ t > 0 /\ simulated_velocity = 0 /\ last_direction = -1
           \/ t < 0 /\ simulated_velocity = 0 /\ last_direction = 1

C38_BrakingOnlyWhenOpposed ==
    [][(FxPass /\ currently_braking') => C38_Opposes]_vars

====
